---- MODULE Spec2Model ----
(***************************************************************************)
(* Model of the spin pipeline of StreamingSlotMachine.tsx: the session     *)
(* state (spinsRemaining, usedContentIds, providerUsageCount), the spin    *)
(* handler spinButton with its asynchronous continuation, the              *)
(* Provider-Match Filter, the selector chooseContent and the session       *)
(* reset control.                                                          *)
(*                                                                         *)
(* React state is read by a handler through the closure of the render in   *)
(* which the handler was created, and written through setState. A click    *)
(* is a discrete event: its updates are rendered before the next event,    *)
(* so a click handler reads the current state. The asynchronous part of a  *)
(* spin keeps the closure of the click: the fields selectedServices,       *)
(* selectedRatings, used0, usage0 and rem0 of the spin record are that     *)
(* closure. The selection (services, content kinds, ratings) is changed    *)
(* by the toggle buttons only and read by spinButton only, through the     *)
(* closure of the click: a toggle during a spin has the effect of the      *)
(* same toggle after it, and the toggles are modelled between spins.       *)
(*                                                                         *)
(* Seven specifications share the module. Spec is the component. In        *)
(* LibrarySpec the library functions normalizeProviderName and             *)
(* formatProviders are applied to names and offer maps of their own, and   *)
(* in CacheSpec the response cache of lib/cache and the cached wrappers    *)
(* of lib/cached-tmdb run against a clock; the component does not call     *)
(* the wrappers (it imports lib/tmdb-secure). SpinSpec is the component    *)
(* started from a made selection, with weak fairness on the continuations  *)
(* of a spin. FilterSpec runs findContentWithMatchingProviders with its    *)
(* pool of workers, one step per resumption of a handler. ChooserSpec      *)
(* runs chooseContent on pools of the sizes at which it recycles the       *)
(* served titles and exhausts its attempts. DiscoverySpec runs one call    *)
(* of fetchContentWithStrategies or of fetchContentFromAllProviders, one   *)
(* step per query of the metadata provider. Each specification leaves      *)
(* the variables of the others at rest.                                    *)
(***************************************************************************)
EXTENDS Integers, Sequences, FiniteSets, TLC

(***************************************************************************)
(* Bounds of the model.                                                    *)
(***************************************************************************)
\* An accepted spin click is modelled only while the usage counters sum to
\* at most MaxUsage (the counters are unbounded in the code).
MaxUsage == 1

\* At most MaxPending calls of a wrapped operation are in flight at a time.
MaxPending == 1

\* The identifiers of the titles the metadata provider knows.
Titles == {1, 2}

(***************************************************************************)
(* Program constants.                                                      *)
(***************************************************************************)
InitialSpins == 3
MaxAttempts == 16
ResetPoolThreshold == 10
MaxWeight == 10
MAX_PROVIDER_LOOKUPS == 24
PROVIDER_MATCH_TARGET == 8
PROVIDER_CONCURRENCY == 4

\* streamingServices: the names the component offers and reports.
streamingServices ==
    {"Netflix", "Disney+", "Hulu", "Prime Video", "HBO Max", "Apple TV+"}

movieRatings == {"G", "PG", "PG-13", "R", "NC-17"}
tvRatings == {"TV-Y", "TV-Y7", "TV-G", "TV-PG", "TV-14", "TV-MA"}

(***************************************************************************)
(* Inputs: what the user toggles and what the metadata provider answers.   *)
(***************************************************************************)
\* The buttons the user presses.
ServiceInputs == {"Netflix", "Hulu"}
ContentTypeInputs == {"movie"}
RatingInputs == {"PG"}

\* getContentRating: a rating string; null is written "null" and the value
\* of a rating that was never fetched "undefined".
RatingResponses == {"PG", "R", "null"}

NoOffers == [flatrate |-> <<>>, free |-> <<>>, ads |-> <<>>,
             buy |-> <<>>, rent |-> <<>>]

\* getProviders: the US offer map of a title, or a failure ("throw").
ProviderResponses ==
    { NoOffers,
      [NoOffers EXCEPT !.flatrate = <<"Netflix">>],
      [NoOffers EXCEPT !.flatrate = <<"Hulu">>, !.ads = <<"Hulu">>,
                       !.rent = <<"Netflix">>],
      [NoOffers EXCEPT !.flatrate = <<"Disney Plus", "Crunchyroll">>] }

(***************************************************************************)
(* normalizeProviderName (lib/tmdb-secure): lower-case and trim the name,  *)
(* look it up in the alias table, keep the name itself when absent.        *)
(***************************************************************************)
\* name.toLowerCase().trim(), for the names of the model.
LowerTrim(name) ==
    CASE name \in {"Netflix", "NETFLIX", " netflix "} -> "netflix"
      [] name = "Netflix Basic" -> "netflix basic"
      [] name = "Hulu" -> "hulu"
      [] name = "Disney Plus" -> "disney plus"
      [] name \in {"Disney+", "DISNEY+"} -> "disney+"
      [] name = "Crunchyroll" -> "crunchyroll"
      [] name = "Amazon Prime Video" -> "amazon prime video"
      [] name = "Amazon Video" -> "amazon video"
      [] name = "Amazon Prime" -> "amazon prime"
      [] name = "Amazon" -> "amazon"
      [] name = "Prime Video" -> "prime video"
      [] name = "HBO" -> "hbo"
      [] name \in {"Max", "MAX"} -> "max"
      [] name \in {"HBO Max", "hbo max "} -> "hbo max"
      [] name = "Apple TV" -> "apple tv"
      [] name = "Apple TV+" -> "apple tv+"
      [] name = "Apple TV Plus" -> "apple tv plus"
      [] OTHER -> name

ProviderMappings ==
    [k \in {"hbo max", "max", "disney plus", "disney+", "prime video",
            "amazon prime", "apple tv", "apple tv+", "netflix", "hulu"} |->
        CASE k \in {"hbo max", "max"} -> "HBO Max"
          [] k \in {"disney plus", "disney+"} -> "Disney+"
          [] k \in {"prime video", "amazon prime"} -> "Prime Video"
          [] k \in {"apple tv", "apple tv+"} -> "Apple TV+"
          [] k = "netflix" -> "Netflix"
          [] k = "hulu" -> "Hulu"]

\* A normalizer in which the rename of HBO Max to Max was made for one key
\* of the table only.
normalizeProviderNameRenamed(name) ==
    IF LowerTrim(name) = "hbo max" THEN "Max"
    ELSE IF LowerTrim(name) \in DOMAIN ProviderMappings
    THEN ProviderMappings[LowerTrim(name)]
    ELSE name

normalizeProviderName(name) ==
    IF LowerTrim(name) \in DOMAIN ProviderMappings
    THEN ProviderMappings[LowerTrim(name)]
    ELSE name

(***************************************************************************)
(* normalizeProviderName (lib/tmdb): the name is looked up as it is in     *)
(* the table of name variations and kept when absent.                      *)
(***************************************************************************)
providerNameMap ==
    [k \in {"Amazon Prime Video", "Amazon Video", "Amazon", "Amazon Prime",
            "Netflix Basic", "Netflix Premium", "Netflix Standard",
            "Disney Plus", "Disney+", "Hulu", "HBO Max", "HBO", "Max",
            "Apple TV Plus", "Apple TV+", "Apple TV"} |->
        CASE k \in {"Amazon Prime Video", "Amazon Video", "Amazon",
                    "Amazon Prime"} -> "Prime Video"
          [] k \in {"Netflix Basic", "Netflix Premium",
                    "Netflix Standard"} -> "Netflix"
          [] k \in {"Disney Plus", "Disney+"} -> "Disney+"
          [] k = "Hulu" -> "Hulu"
          [] k \in {"HBO Max", "HBO", "Max"} -> "HBO Max"
          [] k \in {"Apple TV Plus", "Apple TV+", "Apple TV"} -> "Apple TV+"]

normalizeProviderNameTmdb(name) ==
    IF name \in DOMAIN providerNameMap THEN providerNameMap[name] ELSE name

(***************************************************************************)
(* Sequence helpers.                                                       *)
(***************************************************************************)
Range(s) == {s[i] : i \in DOMAIN s}

RECURSIVE Unique(_)
\* [...new Set(xs)]: the first occurrence of each element, in order.
Unique(s) ==
    IF s = <<>> THEN <<>>
    ELSE LET front == Unique(SubSeq(s, 1, Len(s) - 1))
             last == s[Len(s)]
         IN IF last \in Range(front) THEN front ELSE Append(front, last)

\* formatProviders: offers of every kind, normalized, unique, restricted to
\* the names of streamingServices.
formatProviders(providers) ==
    LET allProviders == providers.flatrate \o providers.free \o providers.ads
                        \o providers.buy \o providers.rent
        uniqueProviders ==
            Unique([i \in DOMAIN allProviders |->
                        normalizeProviderName(allProviders[i])])
    IN SelectSeq(uniqueProviders, LAMBDA p : p \in streamingServices)


(***************************************************************************)
(* State.                                                                  *)
(***************************************************************************)
VARIABLES
    selectedServices,      \* useState<string[]>([])
    selectedContentTypes,  \* useState<('movie' | 'tv')[]>([])
    selectedRatings,       \* useState<string[]>([])
    isSpinning,            \* useState(false)
    spinsRemaining,        \* useState(3)
    usedContentIds,        \* useState<Set<number>>(new Set())
    providerUsageCount,    \* useState<Record<string, number>>({})
    currentContent,        \* useState<ContentItem | null>(null)
    suggestedItems,        \* useState([null, null, null])
    spin,                  \* closure and locals of the spin in flight
    hist                   \* observations about clicks and spins (history)

\* The library functions applied on their own: an argument and the results.
VARIABLES
    providerName,          \* the argument of normalizeProviderName
    normalized,            \* lib/tmdb-secure: normalize applied 1, 2 times
    normalizedTmdb,        \* lib/tmdb: normalize applied 1, 2 times
    offers,                \* the argument of formatProviders
    formatted              \* the result of formatProviders

\* The response cache and the cached wrappers of lib/cached-tmdb.
VARIABLES
    now,                   \* Date.now()
    memoryCache,           \* APICache.memoryCache of lib/cache
    localStorage,          \* the entries under STORAGE_PREFIX
    cache,                 \* APICache.cache of the in-memory variant
    endpoint,              \* the cached wrapper that is exercised
    pending,               \* calls of the wrapped operation in flight
    returned               \* what the latest cache call returned

\* A call of findContentWithMatchingProviders with its workers.
VARIABLES
    catalog,               \* what the metadata provider knows of the titles
    filterPc,              \* where the call of the filter stands
    currentIndex,          \* runWithConcurrency: the next index to hand out
    handlers,              \* the handlers in flight, by index of their item
    waking,                \* workers whose handler has ended, yet to run on
    finished,              \* workers that left their loop
    passingMatches,        \* the shared counter of the filter
    seenIds,               \* the identifiers of the records pushed
    contentWithProviders,  \* the records pushed (kept as a set)
    invoked,               \* handler invocations, per index (history)
    providerLookups,       \* getProviders calls started, per index
    ratingLookups          \* getContentRating calls started, per index

\* A call of a discovery function on its own.
VARIABLES
    discovery              \* locals of the call and what it has done so far

library == <<providerName, normalized, normalizedTmdb, offers, formatted>>

filtering == <<catalog, filterPc, currentIndex, handlers, waking, finished,
               passingMatches, seenIds, contentWithProviders, invoked,
               providerLookups, ratingLookups>>

caching == <<now, memoryCache, localStorage, cache, endpoint, pending,
             returned>>

\* What the component neither reads nor writes.
others == <<library, caching, filtering, discovery>>

\* The items on display are written, never read back, by the handlers: a
\* slot of the display is written "null" or "item".
display == <<currentContent, suggestedItems>>

EmptySlots == <<"null", "null", "null">>

vars == <<selectedServices, selectedContentTypes, selectedRatings,
          isSpinning, spinsRemaining, usedContentIds, providerUsageCount,
          currentContent, suggestedItems, spin, hist, library, caching,
          filtering, discovery>>

selection == <<selectedServices, selectedContentTypes, selectedRatings>>

session == <<spinsRemaining, usedContentIds, providerUsageCount>>

\* What a step of a spin leaves alone.
aside == <<others, display, selection>>

UsageKeys == streamingServices \cup {"Unknown"}
\* {}: no key is present, every count reads as 0.
EmptyUsage == [p \in UsageKeys |-> 0]

RECURSIVE SumOver(_, _)
SumOver(f, keys) ==
    IF keys = {} THEN 0
    ELSE LET k == CHOOSE x \in keys : TRUE
         IN f[k] + SumOver(f, keys \ {k})

UsageSum(usage) == SumOver(usage, UsageKeys)

NoContent == [id |-> 0, rating |-> "undefined", providers |-> <<>>]

IdleSpin ==
    [pc |-> "idle",
     selectedServices |-> {}, selectedContentTypes |-> {},
     selectedRatings |-> {},
     rem0 |-> 0, used0 |-> {},
     usage0 |-> EmptyUsage,
     allContent |-> <<>>, contentWithProviders |-> <<>>,
     usedIdsSnapshot |-> {}, pass |-> 0, enforceRating |-> FALSE,
     seenThisSpin |-> {}, hasResetUsedContent |-> FALSE, attempt |-> 0,
     candidate |-> 0, candidateProviders |-> <<>>, ratingHint |-> "undefined",
     path |-> "none", formattedContent |-> NoContent]

\* What is remembered about the spin in flight, cleared when it ends.
SpinHistory ==
    [didReset |-> FALSE,      \* chooseContent cleared the served set
     detailFailed |-> FALSE,  \* a formatContentItem call failed
     ratingPassed |-> FALSE]  \* a fetched rating passed the rating filter

InitHist ==
    [outcome |-> "none",     \* what the latest accepted spin click led to:
                             \* the type of the error handed to handleError,
                             \* or running, selected, shown
     called |-> FALSE,       \* a metadata call was issued since the latest click
     inFlight |-> 0,         \* spins started and not yet ended
     sinceReset |-> FALSE,   \* the spin in flight started after the latest reset
     successes |-> 0,        \* spins started and selected since the latest reset
     emptyAfterThrow |-> FALSE,  \* the latest discovery ended with an empty
                             \* pool after one of its provider calls threw
     run |-> SpinHistory]

\* The library functions and the cache at rest.
LibraryIdle ==
    /\ providerName = ""
    /\ normalized = <<>>
    /\ normalizedTmdb = <<>>
    /\ offers = NoOffers
    /\ formatted = [done |-> FALSE, providers |-> <<>>]

\* new Map(), and a localStorage without entries.
EmptyMap == [k \in {} |-> 0]

CacheIdle ==
    /\ now = 0
    /\ memoryCache = EmptyMap
    /\ localStorage = EmptyMap
    /\ cache = EmptyMap
    /\ endpoint = "none"
    /\ pending = 0
    /\ returned = [by |-> "none", data |-> "null"]

\* The component after its first render.
ComponentInit ==
    /\ selectedServices = {}
    /\ selectedContentTypes = {}
    /\ selectedRatings = {}
    /\ isSpinning = FALSE
    /\ spinsRemaining = InitialSpins
    /\ usedContentIds = {}
    /\ providerUsageCount = EmptyUsage
    /\ currentContent = "null"
    /\ suggestedItems = EmptySlots
    /\ spin = IdleSpin
    /\ hist = InitHist

\* No call of the filter with workers of its own.
FilterIdle ==
    /\ catalog = "none"
    /\ filterPc = "idle"
    /\ currentIndex = 0
    /\ handlers = EmptyMap
    /\ waking = 0
    /\ finished = 0
    /\ passingMatches = 0
    /\ seenIds = {}
    /\ contentWithProviders = {}
    /\ invoked = EmptyMap
    /\ providerLookups = EmptyMap
    /\ ratingLookups = EmptyMap

\* The locals of a discovery call that has not started.
IdleDiscovery ==
    [fn |-> "none",            \* the function called
     pc |-> "idle",
     contentType |-> "movie",
     allContent |-> <<>>,      \* the pool accumulated so far
     lastError |-> "null",     \* fetchContentWithStrategies: message or null
     strategy |-> 0,           \* the strategy the call has come to
     attempt |-> 0,            \* the loop variable of strategy 1
     calls |-> <<>>,           \* the strategy calls made (history)
     shuffledProviders |-> <<>>,
     at |-> 0,                 \* index of the provider the loop is at
     page |-> 0,
     providerContentCount |-> 0,
     failedProviders |-> <<>>,
     queried |-> [service \in streamingServices |-> 0],
                               \* getContentByProvider calls per service
                               \* for the content kind of the call (history)
     thrown |-> "none",        \* the type of the error the call threw
     details |-> "",
     result |-> <<>>]          \* the list the call returned

\* No discovery call on its own.
DiscoveryIdle == discovery = IdleDiscovery

Init ==
    /\ ComponentInit
    /\ LibraryIdle
    /\ CacheIdle
    /\ FilterIdle
    /\ DiscoveryIdle

(***************************************************************************)
(* selectBalancedContent: weighted draw over the candidates, weight        *)
(* max(1, 10 - usage of the primary provider). It reads the usage counters *)
(* of its closure and bumps the counter of the chosen primary provider;    *)
(* a list of one is returned at once, without a bump ("none").             *)
(***************************************************************************)
Max(a, b) == IF a >= b THEN a ELSE b
Min(a, b) == IF a <= b THEN a ELSE b

PrimaryProvider(item) ==
    IF item.actualProviders # <<>> THEN item.actualProviders[1] ELSE "Unknown"

\* The weight without its floor of 1.
WeightNoFloor(item, usage) == MaxWeight - usage[PrimaryProvider(item)]

Weight(item, usage) == Max(1, MaxWeight - usage[PrimaryProvider(item)])

RECURSIVE CumulativeWeight(_, _, _)
CumulativeWeight(contentList, usage, i) ==
    IF i = 0 THEN 0
    ELSE CumulativeWeight(contentList, usage, i - 1)
         + Weight(contentList[i], usage)

\* The draw r stands for Math.random() * totalWeight in [r, r + 1): the
\* loop returns the first item whose cumulative weight exceeds it. The
\* loop always returns, since random < totalWeight.
selectBalancedContent(contentList, usage) ==
    IF Len(contentList) = 1
    THEN {[content |-> contentList[1], bump |-> "none"]}
    ELSE LET totalWeight ==
                 CumulativeWeight(contentList, usage, Len(contentList))
             Drawn(r) ==
                 CHOOSE i \in 1..Len(contentList) :
                     /\ CumulativeWeight(contentList, usage, i - 1) <= r
                     /\ r < CumulativeWeight(contentList, usage, i)
         IN {[content |-> contentList[Drawn(r)],
              bump |-> PrimaryProvider(contentList[Drawn(r)])] :
                r \in 0..(totalWeight - 1)}

BumpUsage(usage, provider) ==
    IF provider = "none" THEN usage
    ELSE [usage EXCEPT ![provider] = @ + 1]

(***************************************************************************)
(* findContentWithMatchingProviders: the records of the inspected prefix.  *)
(* Every title of the prefix gets one provider lookup; a failed lookup or  *)
(* an empty intersection with the selected services drops the title; with  *)
(* a rating filter the rating is fetched and the record is marked. The     *)
(* handlers run concurrently, so the records are appended in the order in  *)
(* which the lookups complete. (With a prefix of at most                   *)
(* PROVIDER_CONCURRENCY titles every handler starts at once and the        *)
(* early-stop target cannot be reached.)                                   *)
(***************************************************************************)
Dropped ==
    [actualProviders |-> <<>>, prefetchedRating |-> "undefined",
     passesRatingFilter |-> FALSE]

\* The formatted providers without the restriction to the selected services.
MatchingProvidersUnfiltered(providers, svc) == formatProviders(providers)

MatchingProviders(providers, svc) ==
    SelectSeq(formatProviders(providers), LAMBDA p : p \in svc)

\* The rating test without its test of a missing rating.
PassesRatingMissingOk(rating, ratings) == rating = "null" \/ rating \in ratings

PassesRating(rating, ratings) == rating # "null" /\ rating \in ratings

\* What the handler makes of one title, for every answer of the provider.
InspectOutcomes(svc, ratings) ==
    {Dropped} \cup
    UNION { IF MatchingProviders(resp, svc) = <<>>
            THEN {Dropped}
            ELSE IF ratings # {}
            THEN {[actualProviders |-> MatchingProviders(resp, svc),
                   prefetchedRating |-> r,
                   passesRatingFilter |-> PassesRating(r, ratings)] :
                     r \in RatingResponses}
            ELSE {[actualProviders |-> MatchingProviders(resp, svc),
                   prefetchedRating |-> "undefined",
                   passesRatingFilter |-> TRUE]} :
            resp \in ProviderResponses }

RECURSIVE Collect(_, _, _, _)
\* The records pushed by the first k lookups to complete.
Collect(items, outcome, order, k) ==
    IF k = 0 THEN <<>>
    ELSE LET before == Collect(items, outcome, order, k - 1)
             i == order[k]
         IN IF outcome[i] = Dropped THEN before
            ELSE Append(before,
                        [id |-> items[i],
                         actualProviders |-> outcome[i].actualProviders,
                         prefetchedRating |-> outcome[i].prefetchedRating,
                         passesRatingFilter |-> outcome[i].passesRatingFilter])

findContentWithMatchingProviders(allContent, svc, ratings) ==
    LET itemsToInspect ==
            SubSeq(allContent, 1, Min(Len(allContent), MAX_PROVIDER_LOOKUPS))
        n == Len(itemsToInspect)
    IN { Collect(itemsToInspect, outcome, order, n) :
            outcome \in [1..n -> InspectOutcomes(svc, ratings)],
            order \in Permutations(1..n) }

(***************************************************************************)
(* fetchContentFromAllProviders: the pool handed to the spin is a shuffled *)
(* list without repeated identifiers, possibly empty; every failure of a   *)
(* provider call is caught inside it.                                      *)
(***************************************************************************)
DiscoveryPools ==
    { pool \in UNION {[1..n -> Titles] : n \in 0..Cardinality(Titles)} :
        \A i, j \in DOMAIN pool : pool[i] = pool[j] => i = j }


(***************************************************************************)
(* spinButton: the click.                                                  *)
(***************************************************************************)
\* The guard of spinButton without its test of isSpinning.
SpinRejectedBudgetOnly(spinning, remaining) == remaining <= 0

\* if (isSpinning || spinsRemaining <= 0) return;
SpinRejected(spinning, remaining) == spinning \/ remaining <= 0

\* The validation of spinButton without its test of selectedContentTypes.
SelectionMissingServicesOnly(services, types) == services = {}

\* if (selectedServices.length === 0) ...
\* if (selectedContentTypes.length === 0) ...
SelectionMissing(services, types) == services = {} \/ types = {}

\* A reset of the served set that leaves the usage counters alone.
resetUsedContentServedOnly ==
    /\ usedContentIds' = {}
    /\ providerUsageCount' = providerUsageCount

\* resetUsedContent()
resetUsedContent ==
    /\ usedContentIds' = {}
    /\ providerUsageCount' = EmptyUsage

\* The catch block of spinButton without setSpinsRemaining(prev => prev + 1).
SpinFailsNoRefund(type) ==
    /\ isSpinning' = FALSE
    /\ spinsRemaining' = spinsRemaining
    /\ spin' = IdleSpin
    /\ UNCHANGED <<aside, usedContentIds, providerUsageCount>>

\* The catch block of spinButton without setIsSpinning(false).
SpinFailsStillSpinning(type) ==
    /\ isSpinning' = isSpinning
    /\ spinsRemaining' = spinsRemaining + 1
    /\ spin' = IdleSpin
    /\ UNCHANGED <<aside, usedContentIds, providerUsageCount>>

\* The catch block of spinButton: handleError, setIsSpinning(false),
\* setSpinsRemaining(prev => prev + 1). The spin has ended.
SpinFails(type) ==
    /\ isSpinning' = FALSE
    /\ spinsRemaining' = spinsRemaining + 1
    /\ spin' = IdleSpin
    /\ UNCHANGED <<aside, usedContentIds, providerUsageCount>>

\* The click handler of the spin button.
SpinClick ==
    IF SpinRejected(isSpinning, spinsRemaining)
    THEN UNCHANGED vars
    ELSE IF SelectionMissing(selectedServices, selectedContentTypes)
    THEN \* setIsSpinning(true), prev - 1, then the validation error:
         \* setIsSpinning(false), prev + 1, all in the click handler.
         /\ isSpinning' = FALSE
         /\ spinsRemaining' = (spinsRemaining - 1) + 1
         /\ hist' = [hist EXCEPT !.outcome = "PROVIDER_ERROR",
                                 !.called = FALSE,
                                 !.emptyAfterThrow = FALSE]
         /\ UNCHANGED <<aside, usedContentIds, providerUsageCount, spin>>
    ELSE /\ UsageSum(providerUsageCount) <= MaxUsage
         /\ isSpinning' = TRUE
         /\ spinsRemaining' = spinsRemaining - 1
         /\ spin' = [IdleSpin EXCEPT !.pc = "discover",
                                     !.selectedServices = selectedServices,
                                     !.selectedContentTypes =
                                         selectedContentTypes,
                                     !.selectedRatings = selectedRatings,
                                     !.rem0 = spinsRemaining,
                                     !.used0 = usedContentIds,
                                     !.usage0 = providerUsageCount]
         /\ hist' = [hist EXCEPT !.outcome = "running",
                                 !.called = FALSE,
                                 !.emptyAfterThrow = FALSE,
                                 !.inFlight = @ + 1,
                                 !.sinceReset = TRUE,
                                 !.run = SpinHistory]
         /\ UNCHANGED <<aside, usedContentIds, providerUsageCount>>

(***************************************************************************)
(* The toggle buttons. The last selected service or content kind cannot    *)
(* be deselected; with a single content kind selected the ratings of the   *)
(* other kind are cleared and their buttons disabled.                      *)
(***************************************************************************)
Toggled(prev, x) ==
    IF x \in prev
    THEN (IF Cardinality(prev) > 1 THEN prev \ {x} ELSE prev)
    ELSE prev \cup {x}

toggleService ==
    /\ spin.pc = "idle"
    /\ \E service \in ServiceInputs :
          selectedServices' = Toggled(selectedServices, service)
    /\ UNCHANGED <<others, display, selectedContentTypes, selectedRatings,
                   isSpinning, session, spin, hist>>

IrrelevantRatings(types) ==
    IF "movie" \in types THEN tvRatings ELSE movieRatings

toggleContentType ==
    /\ spin.pc = "idle"
    /\ \E type \in ContentTypeInputs :
          LET newTypes == Toggled(selectedContentTypes, type)
          IN /\ selectedContentTypes' = newTypes
             /\ selectedRatings' =
                   IF Cardinality(newTypes) = 1
                   THEN selectedRatings \ IrrelevantRatings(newTypes)
                   ELSE selectedRatings
    /\ UNCHANGED <<others, display, selectedServices, isSpinning, session,
                   spin, hist>>

\* disabled={isDisabled} of the button of a rating.
RatingDisabled(rating, types) ==
    /\ Cardinality(types) = 1
    /\ ~((IF rating \in movieRatings THEN "movie" ELSE "tv") \in types)

toggleRating ==
    /\ spin.pc = "idle"
    /\ \E rating \in RatingInputs :
          /\ ~RatingDisabled(rating, selectedContentTypes)
          /\ selectedRatings' =
                IF rating \in selectedRatings
                THEN selectedRatings \ {rating}
                ELSE selectedRatings \cup {rating}
    /\ UNCHANGED <<others, display, selectedServices, selectedContentTypes,
                   isSpinning, session, spin, hist>>

\* A reset control that is rendered whatever the number of spins left.
ResetOfferedAlways(remaining) == TRUE

\* GET FRESH SPINS, rendered while spinsRemaining <= 0.
ResetOffered(remaining) == remaining <= 0

ResetClick ==
    /\ ResetOffered(spinsRemaining)
    /\ spinsRemaining' = InitialSpins
    /\ resetUsedContent
    /\ currentContent' = "null"
    /\ suggestedItems' = EmptySlots
    /\ hist' = [hist EXCEPT !.sinceReset = FALSE, !.successes = 0]
    /\ UNCHANGED <<others, selection, isSpinning, spin>>

(***************************************************************************)
(* spinButton after the click: discovery, filter, selection.               *)
(***************************************************************************)
EndedHist(outcome) ==
    [hist EXCEPT !.outcome = outcome, !.inFlight = @ - 1, !.run = SpinHistory]

\* allContent = await fetchContentFromAllProviders(contentType);
\* every provider call of the discovery sits in a try/catch that logs the
\* error and goes on (threw: one of the calls failed), so the discovery
\* always returns a pool; an empty pool throws NO_CONTENT.
Discover ==
    /\ spin.pc = "discover"
    /\ \E pool \in DiscoveryPools, threw \in BOOLEAN :
          IF Len(pool) = 0
          THEN /\ SpinFails("NO_CONTENT")
               /\ hist' = [EndedHist("NO_CONTENT") EXCEPT
                               !.called = TRUE, !.emptyAfterThrow = threw]
          ELSE /\ spin' = [spin EXCEPT !.allContent = pool, !.pc = "filter"]
               /\ hist' = [hist EXCEPT !.called = TRUE]
               /\ UNCHANGED <<aside, isSpinning, session>>

\* The locals of a call of chooseContent.
StartPass(s, pass, enforceOption) ==
    [s EXCEPT !.pc = "choose", !.pass = pass,
              !.enforceRating = enforceOption /\ s.selectedRatings # {},
              !.seenThisSpin = {}, !.hasResetUsedContent = FALSE,
              !.attempt = 0, !.candidate = 0, !.candidateProviders = <<>>,
              !.ratingHint = "undefined", !.path = "none",
              !.formattedContent = NoContent]

\* contentWithProviders = await findContentWithMatchingProviders(allContent);
\* usedIdsSnapshot = new Set(usedContentIds); the first chooseContent call.
Filter ==
    /\ spin.pc = "filter"
    /\ \E found \in findContentWithMatchingProviders(
                        spin.allContent, spin.selectedServices,
                        spin.selectedRatings) :
          /\ spin' = StartPass([spin EXCEPT !.contentWithProviders = found,
                                            !.usedIdsSnapshot = spin.used0],
                               1, spin.selectedRatings # {})
          /\ hist' = [hist EXCEPT !.run.ratingPassed =
                         \E i \in DOMAIN found :
                            PassesRating(found[i].prefetchedRating,
                                         spin.selectedRatings)]
    /\ UNCHANGED <<aside, isSpinning, session>>


(***************************************************************************)
(* chooseContent: one iteration of the attempt loop is ChooseStep (up to   *)
(* the candidate and, on the fallback path, its provider lookup) followed  *)
(* by FormatStep (formatContentItem and the rating check). When the loop   *)
(* ends, chooseContent returns and spinButton goes on in the same task:    *)
(* the retry without the rating constraint, the NO_CONTENT error or the    *)
(* selection are part of the step that ends the loop.                      *)
(***************************************************************************)
\* The filter of providerPool with the test of the served set inverted.
MatchedEligibleServed(item, usedIds, seen, enforce) ==
    /\ (item.id \in usedIds \/ item.id \in seen)
    /\ ~(enforce /\ item.passesRatingFilter = FALSE)

\* The filter of providerPool.
MatchedEligible(item, usedIds, seen, enforce) ==
    /\ ~(item.id \in usedIds \/ item.id \in seen)
    /\ ~(enforce /\ item.passesRatingFilter = FALSE)

\* The filter of fallbackPool without the test of the served set.
FallbackEligibleUnseen(id, usedIds, seen) == ~(id \in seen)

\* The filter of fallbackPool.
FallbackEligible(id, usedIds, seen) == ~(id \in usedIds) /\ ~(id \in seen)

\* The stable sort that puts the records failing the rating filter last.
PrioritizedPool(providerPool, enforce) ==
    IF enforce THEN providerPool
    ELSE SelectSeq(providerPool, LAMBDA r : r.passesRatingFilter # FALSE)
         \o SelectSeq(providerPool, LAMBDA r : r.passesRatingFilter = FALSE)

\* candidateProviders of a fallback candidate.
FallbackProviders(failed, providers) ==
    IF failed THEN <<>> ELSE formatProviders(providers)

\* The rating check that lets a missing rating through.
RatingAcceptedWhenMissing(enforce, rating, ratings) ==
    enforce => (rating \in {"null", "undefined"} \/ rating \in ratings)

\* if (enforceRating) {
\*   if (!rating || !selectedRatings.includes(rating)) continue; }
RatingAccepted(enforce, rating, ratings) ==
    enforce => (rating \notin {"null", "undefined"} /\ rating \in ratings)

\* A candidate accepted only when it is offered by a selected service.
CandidateAcceptedOnService(s, rating) ==
    /\ RatingAccepted(s.enforceRating, rating, s.selectedRatings)
    /\ Range(s.candidateProviders) \cap s.selectedServices # {}

\* Whether the formatted candidate of s becomes the result.
CandidateAccepted(s, rating) ==
    RatingAccepted(s.enforceRating, rating, s.selectedRatings)

\* continue: the next iteration starts with fresh loop locals.
\* A skipped candidate that ends the attempt loop (break) instead of
\* going on with the next attempt (continue).
NextAttemptBreak(s) ==
    [s EXCEPT !.pc = "choose", !.attempt = MaxAttempts, !.candidate = 0,
              !.candidateProviders = <<>>, !.ratingHint = "undefined",
              !.path = "none"]

\* A skipped candidate that leaves the attempt counter as it is.
NextAttemptUncounted(s) ==
    [s EXCEPT !.pc = "choose", !.candidate = 0,
              !.candidateProviders = <<>>, !.ratingHint = "undefined",
              !.path = "none"]

NextAttempt(s) ==
    [s EXCEPT !.pc = "choose", !.attempt = @ + 1, !.candidate = 0,
              !.candidateProviders = <<>>, !.ratingHint = "undefined",
              !.path = "none"]

\* spinButton without the second call of chooseContent.
RetryNever(content, ratings) == FALSE

\* if (!formattedContent && selectedRatings.length > 0) retry with
\* enforceRating: false.
RetryRelaxed(content, ratings) == content = NoContent /\ ratings # {}

\* chooseContent returned no content.
PassEndsEmpty ==
    IF spin.pass = 1 /\ RetryRelaxed(NoContent, spin.selectedRatings)
    THEN /\ spin' = StartPass(spin, 2, FALSE)
         /\ UNCHANGED <<aside, isSpinning, session, hist>>
    ELSE /\ SpinFails("NO_CONTENT")
         /\ hist' = EndedHist("NO_CONTENT")

\* The spin once a title is selected: its closure and the result. The
\* result is shown, and the spin ends, 1500 ms later.
SelectedSpin(s, content) ==
    [IdleSpin EXCEPT !.pc = "selected",
                     !.selectedServices = s.selectedServices,
                     !.selectedContentTypes = s.selectedContentTypes,
                     !.selectedRatings = s.selectedRatings,
                     !.rem0 = s.rem0, !.used0 = s.used0, !.usage0 = s.usage0,
                     !.pass = s.pass, !.path = s.path,
                     !.formattedContent = content]

\* chooseContent returned content: setUsedContentIds adds its identifier.
PassEndsWith(content) ==
    /\ usedContentIds' = usedContentIds \cup {content.id}
    /\ spin' = SelectedSpin(spin, content)
    /\ UNCHANGED <<aside, isSpinning, spinsRemaining, providerUsageCount>>

\* A reset that also forgets the titles tried in the pass.
ResetAndForget ==
    /\ resetUsedContent
    /\ spin' = NextAttempt([spin EXCEPT !.usedIdsSnapshot = {},
                                        !.seenThisSpin = {},
                                        !.hasResetUsedContent = TRUE])
    /\ hist' = [hist EXCEPT !.run.didReset = TRUE]
    /\ UNCHANGED <<aside, isSpinning, spinsRemaining>>

ResetAndContinue ==
    /\ resetUsedContent
    /\ spin' = NextAttempt([spin EXCEPT !.usedIdsSnapshot = {},
                                        !.hasResetUsedContent = TRUE])
    /\ hist' = [hist EXCEPT !.run.didReset = TRUE]
    /\ UNCHANGED <<aside, isSpinning, spinsRemaining>>

ChooseStep ==
    /\ spin.pc = "choose"
    /\ LET found == spin.contentWithProviders
           providerPool ==
               SelectSeq(found, LAMBDA item :
                   MatchedEligible(item, spin.usedIdsSnapshot,
                                   spin.seenThisSpin, spin.enforceRating))
           fallbackPool ==
               SelectSeq(spin.allContent, LAMBDA id :
                   FallbackEligible(id, spin.usedIdsSnapshot,
                                    spin.seenThisSpin))
       IN IF spin.attempt >= MaxAttempts
          THEN PassEndsEmpty
          ELSE IF /\ Len(found) > 0
                  /\ Len(providerPool) = 0
                  /\ ~spin.hasResetUsedContent
                  /\ Len(found) > ResetPoolThreshold
          THEN ResetAndContinue
          ELSE IF Len(found) > 0 /\ Len(providerPool) > 0
          THEN \E chosen \in selectBalancedContent(
                                PrioritizedPool(providerPool,
                                                spin.enforceRating),
                                spin.usage0) :
                  /\ providerUsageCount' =
                        BumpUsage(providerUsageCount, chosen.bump)
                  /\ spin' = [spin EXCEPT
                        !.pc = "format",
                        !.candidate = chosen.content.id,
                        !.candidateProviders = chosen.content.actualProviders,
                        !.ratingHint = chosen.content.prefetchedRating,
                        !.seenThisSpin = @ \cup {chosen.content.id},
                        !.path = "matched"]
                  /\ UNCHANGED <<aside, isSpinning, spinsRemaining,
                                 usedContentIds, hist>>
          ELSE IF Len(fallbackPool) = 0
          THEN IF ~spin.hasResetUsedContent
               THEN ResetAndContinue
               ELSE PassEndsEmpty  \* break
          ELSE \E randomIndex \in 1..Len(fallbackPool),
                  failed \in BOOLEAN, providers \in ProviderResponses :
                  /\ spin' = [spin EXCEPT
                        !.pc = "format",
                        !.candidate = fallbackPool[randomIndex],
                        !.candidateProviders =
                            FallbackProviders(failed, providers),
                        !.ratingHint = "undefined",
                        !.seenThisSpin = @ \cup {fallbackPool[randomIndex]},
                        !.path = "fallback"]
                  /\ UNCHANGED <<aside, isSpinning, session, hist>>

\* formatContentItem: the detail, credits and keyword lookups may fail; the
\* rating is the prefetched one when there is one, else it is fetched.
FormatStep ==
    /\ spin.pc = "format"
    /\ \E detailsOk \in BOOLEAN, fetched \in RatingResponses :
          LET rating == IF spin.ratingHint # "undefined"
                        THEN spin.ratingHint ELSE fetched
              ratingSeen ==
                  [hist EXCEPT !.run.ratingPassed =
                      @ \/ PassesRating(rating, spin.selectedRatings)]
          IN IF ~detailsOk
             THEN /\ spin' = NextAttempt(spin)
                  /\ hist' = [hist EXCEPT !.run.detailFailed = TRUE]
                  /\ UNCHANGED <<aside, isSpinning, session>>
             ELSE IF ~CandidateAccepted(spin, rating)
             THEN /\ spin' = NextAttempt(spin)
                  /\ hist' = ratingSeen
                  /\ UNCHANGED <<aside, isSpinning, session>>
             ELSE /\ PassEndsWith([id |-> spin.candidate, rating |-> rating,
                                   providers |-> spin.candidateProviders])
                  /\ hist' = [ratingSeen EXCEPT
                        !.outcome = "selected",
                        !.successes = IF hist.sinceReset THEN @ + 1 ELSE @]

\* setSuggestedItems of the timeout: the item goes to the first empty slot;
\* with the three slots taken the list is left as it is.
FillFirstEmpty(items, item) ==
    IF \E i \in DOMAIN items : items[i] = "null"
    THEN LET firstEmptyIndex ==
                 CHOOSE i \in DOMAIN items :
                    items[i] = "null" /\ \A j \in 1..(i - 1) : items[j] # "null"
         IN [items EXCEPT ![firstEmptyIndex] = item]
    ELSE items

\* The timeout of 1500 ms that shows the result and ends the spin.
ShowResult ==
    /\ spin.pc = "selected"
    /\ currentContent' = "item"
    /\ suggestedItems' = FillFirstEmpty(suggestedItems, "item")
    /\ isSpinning' = FALSE
    /\ spin' = IdleSpin
    /\ hist' = EndedHist("shown")
    /\ UNCHANGED <<others, selection, session>>

Next ==
    \/ toggleService
    \/ toggleContentType
    \/ toggleRating
    \/ SpinClick
    \/ ResetClick
    \/ Discover
    \/ Filter
    \/ ChooseStep
    \/ FormatStep
    \/ ShowResult

Spec == Init /\ [][Next]_vars


(***************************************************************************)
(* The library functions on their own: normalizeProviderName of            *)
(* lib/tmdb-secure (the one the component imports) and of lib/tmdb, each   *)
(* applied to a provider name and then to its own result, and              *)
(* formatProviders applied to an offer map.                                *)
(***************************************************************************)
\* Provider names: aliases, canonical names, other letter cases and
\* surrounding blanks, a name no table knows.
ProviderNameInputs ==
    {"Amazon Prime Video", "Amazon Video", "Amazon Prime", "Amazon",
     "Prime Video", "HBO", "Max", "MAX", "HBO Max", "hbo max ",
     "Netflix", "NETFLIX", " netflix ", "Netflix Basic",
     "Disney Plus", "Disney+", "DISNEY+", "Hulu",
     "Apple TV", "Apple TV+", "Apple TV Plus", "Crunchyroll"}

\* Offer maps: those of the spins, and titles that a service only sells
\* or rents.
OfferInputs ==
    ProviderResponses \cup
    { [NoOffers EXCEPT !.rent = <<"Netflix">>],
      [NoOffers EXCEPT !.buy = <<"Hulu">>],
      [NoOffers EXCEPT !.free = <<"Hulu">>, !.buy = <<"Netflix">>,
                       !.rent = <<"Netflix">>],
      [NoOffers EXCEPT !.flatrate = <<"Amazon Prime Video">>,
                       !.buy = <<"Apple TV">>] }

LibraryInit ==
    /\ ComponentInit
    /\ CacheIdle
    /\ FilterIdle
    /\ DiscoveryIdle
    /\ providerName \in ProviderNameInputs
    /\ normalized = <<>>
    /\ normalizedTmdb = <<>>
    /\ offers \in OfferInputs
    /\ formatted = [done |-> FALSE, providers |-> <<>>]

\* The argument of the next application: the name, then the result.
NextArgument(name, results) ==
    IF results = <<>> THEN name ELSE results[Len(results)]

NormalizeStep ==
    /\ Len(normalized) < 2
    /\ normalized' =
          Append(normalized,
                 normalizeProviderName(NextArgument(providerName, normalized)))
    /\ UNCHANGED <<providerName, normalizedTmdb, offers, formatted>>
    /\ UNCHANGED <<selection, isSpinning, session, display, spin, hist,
                   caching, filtering, discovery>>

NormalizeTmdbStep ==
    /\ Len(normalizedTmdb) < 2
    /\ normalizedTmdb' =
          Append(normalizedTmdb,
                 normalizeProviderNameTmdb(
                     NextArgument(providerName, normalizedTmdb)))
    /\ UNCHANGED <<providerName, normalized, offers, formatted>>
    /\ UNCHANGED <<selection, isSpinning, session, display, spin, hist,
                   caching, filtering, discovery>>

FormatProvidersStep ==
    /\ ~formatted.done
    /\ formatted' = [done |-> TRUE, providers |-> formatProviders(offers)]
    /\ UNCHANGED <<providerName, normalized, normalizedTmdb, offers>>
    /\ UNCHANGED <<selection, isSpinning, session, display, spin, hist,
                   caching, filtering, discovery>>

LibraryNext ==
    \/ NormalizeStep
    \/ NormalizeTmdbStep
    \/ FormatProvidersStep

LibrarySpec == LibraryInit /\ [][LibraryNext]_vars


(***************************************************************************)
(* The response cache. lib/cache (APICache with memoryCache and            *)
(* localStorage) is the cache of the wrappers of lib/cached-tmdb; the      *)
(* in-memory variant of lib/cache (APICache with cache) is modelled by     *)
(* its set and get. Times are milliseconds. A behaviour exercises one      *)
(* wrapper with one list of arguments, that is one key, and the clock      *)
(* jumps between the instants around the expiry of an entry.               *)
(***************************************************************************)
DEFAULT_TTL == 5 * 60 * 1000

defaultTTL == 5 * 60 * 1000

CACHE_TTL ==
    [GENRES |-> 24 * 60 * 60 * 1000, CONTENT |-> 30 * 60 * 1000,
     PROVIDERS |-> 60 * 60 * 1000, DETAILS |-> 2 * 60 * 60 * 1000,
     TRENDING |-> 10 * 60 * 1000]

Endpoints == {"getProviders", "getContentRating", "getContentByProvider"}

\* apiCache.generateKey(endpoint, params): the parameters sorted by name.
CacheKeyOf(wrapper) ==
    CASE wrapper = "getProviders" -> "providers?id=1&type=movie"
      [] wrapper = "getContentRating" -> "content-rating?id=1&type=movie"
      [] wrapper = "getContentByProvider" ->
            "content-by-provider?page=1&providerId=8&type=movie"

\* The ttl option of the wrapper's apiCache.set.
TtlOf(wrapper) ==
    CASE wrapper = "getProviders" -> CACHE_TTL.PROVIDERS
      [] wrapper = "getContentRating" -> CACHE_TTL.DETAILS
      [] wrapper = "getContentByProvider" -> CACHE_TTL.CONTENT

\* What the wrapped operation of lib/tmdb returns: getProviders the offer
\* map or null, getContentRating a rating or null, getContentByProvider a
\* list of titles, empty after an error.
OriginalResults(wrapper) ==
    CASE wrapper = "getProviders" -> {"null", "offers"}
      [] wrapper = "getContentRating" -> {"null", "PG"}
      [] wrapper = "getContentByProvider" -> {"[]", "titles"}

\* if (cached): null is falsy, a list, also an empty one, is truthy.
Truthy(value) == value # "null"

\* The test of the wrapper on what apiCache.get returned:
\* if (cached !== null) in getContentRating, if (cached) in the others.
CacheHit(wrapper, cached) ==
    IF wrapper = "getContentRating" THEN cached # "null" ELSE Truthy(cached)

\* The instants of a behaviour: around the expiry of an entry stored at 0,
\* with the ttl of the wrapper or with the default ttl.
Instants(wrapper) ==
    {0, 1} \cup {TtlOf(wrapper) + d : d \in {-1, 0, 1}}
           \cup {defaultTTL + d : d \in {-1, 0, 1}}

\* isValid of lib/cache: Date.now() - item.timestamp < item.ttl
isValid(item) == now - item.timestamp < item.ttl

\* The expiry test of the in-memory variant:
\* Date.now() - entry.timestamp > entry.ttl
Expired(entry) == now - entry.timestamp > entry.ttl

\* map.set(key, item)
MapSet(map, key, item) ==
    [k \in DOMAIN map \cup {key} |-> IF k = key THEN item ELSE map[k]]

\* map.delete(key)
MapDelete(map, key) == [k \in DOMAIN map \ {key} |-> map[k]]

\* apiCache.get(key) of lib/cache: the value it returns and the maps it
\* leaves. A valid memory item is returned; else a valid stored item is
\* restored to memory and returned, an expired one is removed.
get(key) ==
    IF key \in DOMAIN memoryCache /\ isValid(memoryCache[key])
    THEN [value |-> memoryCache[key].data,
          memory |-> memoryCache, storage |-> localStorage]
    ELSE IF key \in DOMAIN localStorage
    THEN IF isValid(localStorage[key])
         THEN [value |-> localStorage[key].data,
               memory |-> MapSet(memoryCache, key, localStorage[key]),
               storage |-> localStorage]
         ELSE [value |-> "null", memory |-> memoryCache,
               storage |-> MapDelete(localStorage, key)]
    ELSE [value |-> "null", memory |-> memoryCache,
          storage |-> localStorage]

CacheInit ==
    /\ ComponentInit
    /\ LibraryIdle
    /\ FilterIdle
    /\ DiscoveryIdle
    /\ now = 0
    /\ memoryCache = EmptyMap
    /\ localStorage = EmptyMap
    /\ cache = EmptyMap
    /\ endpoint \in Endpoints
    /\ pending = 0
    /\ returned = [by |-> "none", data |-> "null"]

component == <<selection, isSpinning, session, display, spin, hist>>

\* Time passes.
Tick ==
    /\ \E t \in Instants(endpoint) : t > now /\ now' = t
    /\ UNCHANGED <<memoryCache, localStorage, cache, endpoint, pending,
                   returned>>
    /\ UNCHANGED <<component, library, filtering, discovery>>

\* The page is loaded again: the module state is new, localStorage stays.
Reload ==
    /\ memoryCache' = EmptyMap
    /\ cache' = EmptyMap
    /\ pending' = 0
    /\ UNCHANGED <<now, localStorage, endpoint, returned>>
    /\ UNCHANGED <<component, library, filtering, discovery>>

\* apiCache.clearExpired(), every five minutes.
clearExpired ==
    /\ memoryCache' =
          [k \in {j \in DOMAIN memoryCache : isValid(memoryCache[j])} |->
              memoryCache[k]]
    /\ UNCHANGED <<now, localStorage, cache, endpoint, pending, returned>>
    /\ UNCHANGED <<component, library, filtering, discovery>>

\* A call of the cached wrapper up to its await: apiCache.get, then the
\* cached value is returned or the wrapped operation is called.
CachedCall ==
    LET cached == get(CacheKeyOf(endpoint))
    IN /\ memoryCache' = cached.memory
       /\ localStorage' = cached.storage
       /\ returned' = [by |-> "apiCache.get", data |-> cached.value]
       /\ IF CacheHit(endpoint, cached.value)
          THEN pending' = pending
          ELSE pending < MaxPending /\ pending' = pending + 1
       /\ UNCHANGED <<now, cache, endpoint>>
       /\ UNCHANGED <<component, library, filtering, discovery>>

\* The wrapped operation returns: apiCache.set(cacheKey, data, {ttl,
\* useLocalStorage: true}); localStorage.setItem may throw (stored).
CachedReturn ==
    /\ pending > 0
    /\ pending' = pending - 1
    /\ \E data \in OriginalResults(endpoint), stored \in BOOLEAN :
          LET item == [data |-> data, timestamp |-> now,
                       ttl |-> IF TtlOf(endpoint) # 0 THEN TtlOf(endpoint)
                                                     ELSE DEFAULT_TTL]
          IN /\ memoryCache' = MapSet(memoryCache, CacheKeyOf(endpoint), item)
             /\ localStorage' =
                   IF stored
                   THEN MapSet(localStorage, CacheKeyOf(endpoint), item)
                   ELSE localStorage
             /\ returned' = [by |-> "original", data |-> data]
    /\ UNCHANGED <<now, cache, endpoint>>
    /\ UNCHANGED <<component, library, filtering, discovery>>

\* set(key, data, ttl = defaultTTL) of the in-memory variant.
SimpleSet ==
    /\ \E ttl \in {defaultTTL, TtlOf(endpoint)} :
          cache' = MapSet(cache, "key",
                          [data |-> "data", timestamp |-> now, ttl |-> ttl])
    /\ UNCHANGED <<now, memoryCache, localStorage, endpoint, pending,
                   returned>>
    /\ UNCHANGED <<component, library, filtering, discovery>>

\* get(key) of the in-memory variant: null without an entry; an expired
\* entry is deleted and null returned; else the data.
SimpleGet ==
    /\ IF ~("key" \in DOMAIN cache)
       THEN /\ returned' = [by |-> "cache.get", data |-> "null"]
            /\ cache' = cache
       ELSE IF Expired(cache["key"])
       THEN /\ returned' = [by |-> "cache.get", data |-> "null"]
            /\ cache' = MapDelete(cache, "key")
       ELSE /\ returned' = [by |-> "cache.get", data |-> cache["key"].data]
            /\ cache' = cache
    /\ UNCHANGED <<now, memoryCache, localStorage, endpoint, pending>>
    /\ UNCHANGED <<component, library, filtering, discovery>>

CacheNext ==
    \/ Tick
    \/ Reload
    \/ clearExpired
    \/ CachedCall
    \/ CachedReturn
    \/ SimpleSet
    \/ SimpleGet

CacheSpec == CacheInit /\ [][CacheNext]_vars


(***************************************************************************)
(* The spins of a session whose selection is made: the clicks on the spin  *)
(* and reset controls and the continuations of the spin in flight. Every   *)
(* metadata call of a spin is awaited, and the call returns or fails;      *)
(* the timeout that shows the result fires: a continuation that can run    *)
(* does run (weak fairness). A click is up to the user (no fairness).      *)
(***************************************************************************)
SelectionInputs ==
    [services : {{"Netflix"}},
     types : {{"movie"}},
     ratings : {{}, {"PG"}}]

SpinInit ==
    /\ \E made \in SelectionInputs :
          /\ selectedServices = made.services
          /\ selectedContentTypes = made.types
          /\ selectedRatings = made.ratings
    /\ isSpinning = FALSE
    /\ spinsRemaining = InitialSpins
    /\ usedContentIds = {}
    /\ providerUsageCount = EmptyUsage
    /\ currentContent = "null"
    /\ suggestedItems = EmptySlots
    /\ spin = IdleSpin
    /\ hist = InitHist
    /\ LibraryIdle
    /\ CacheIdle
    /\ FilterIdle
    /\ DiscoveryIdle

SpinNext ==
    \/ SpinClick
    \/ ResetClick
    \/ Discover
    \/ Filter
    \/ ChooseStep
    \/ FormatStep
    \/ ShowResult

Continuations ==
    /\ WF_vars(Discover)
    /\ WF_vars(Filter)
    /\ WF_vars(ChooseStep)
    /\ WF_vars(FormatStep)
    /\ WF_vars(ShowResult)

SpinSpec == SpinInit /\ [][SpinNext]_vars /\ Continuations


(***************************************************************************)
(* findContentWithMatchingProviders with its workers. runWithConcurrency   *)
(* creates min(limit, items.length) workers; a worker takes the next       *)
(* index, awaits the handler of that item and goes on until the indices    *)
(* are spent. JavaScript runs each piece of code between two awaits to     *)
(* its end: a step of the model is such a piece. The workers run the same  *)
(* code and hold nothing but the item they handle, so they are kept as     *)
(* the handlers in flight, the number of workers whose handler has ended   *)
(* and that have yet to run on (waking), and the number that left the      *)
(* loop (finished). The metadata provider answers by title (catalog). The  *)
(* list contentWithProviders is kept as the set of its records: the order  *)
(* of the list is the order in which the handlers end.                     *)
(***************************************************************************)
\* The largest pool handed to the filter.
MaxPool == 25

Catalogs == {"unmatched", "passing", "mixed", "repeated"}

\* getProviders(contentType, id): the call fails or returns the offers.
OffersOf(cat, id) ==
    CASE cat \in {"passing", "repeated"} ->
            [failed |-> FALSE,
             providers |-> [NoOffers EXCEPT !.flatrate = <<"Netflix">>]]
      [] cat = "unmatched" ->
            IF id % 3 = 0
            THEN [failed |-> TRUE, providers |-> NoOffers]
            ELSE IF id % 3 = 1
            THEN [failed |-> FALSE, providers |-> NoOffers]
            ELSE [failed |-> FALSE,
                  providers |-> [NoOffers EXCEPT
                      !.flatrate = <<"Disney Plus", "Crunchyroll">>]]
      [] cat = "mixed" ->
            IF id % 6 = 4
            THEN [failed |-> TRUE, providers |-> NoOffers]
            ELSE IF id % 6 = 5
            THEN [failed |-> FALSE,
                  providers |-> [NoOffers EXCEPT
                      !.flatrate = <<"Disney Plus", "Crunchyroll">>]]
            ELSE IF id % 6 = 2
            THEN [failed |-> FALSE,
                  providers |-> [NoOffers EXCEPT
                      !.flatrate = <<"Hulu">>, !.ads = <<"Hulu">>,
                      !.rent = <<"Netflix">>]]
            ELSE [failed |-> FALSE,
                  providers |-> [NoOffers EXCEPT !.flatrate = <<"Netflix">>]]

\* getContentRating(contentType, id): the US rating, null when there is
\* none or when the call failed.
RatingOf(cat, id) ==
    CASE cat \in {"passing", "repeated"} -> "PG"
      [] cat = "unmatched" -> "null"
      [] cat = "mixed" ->
            IF id % 6 = 1 THEN "PG"
            ELSE IF id % 6 = 2 THEN "R"
            ELSE "null"

\* The pools of a catalog: a pool longer than the inspected prefix where
\* nothing stops the inspection early, pools of up to
\* PROVIDER_MATCH_TARGET + PROVIDER_CONCURRENCY titles elsewhere.
PoolSizes(cat) ==
    IF cat = "unmatched" THEN {0, 1, 3, MaxPool}
    ELSE {PROVIDER_MATCH_TARGET + 1,
          PROVIDER_MATCH_TARGET + PROVIDER_CONCURRENCY}

\* The pools handed to the filter. The pools of the catalog "repeated" hold
\* an identifier more than once, next to each other and further apart than
\* the workers reach at once.
PoolsOf(cat) ==
    IF cat = "repeated"
    THEN {<<1, 1>>, <<1, 2, 3, 4, 1, 5>>}
    ELSE {[i \in 1..size |-> i] : size \in PoolSizes(cat)}

\* allContent.slice(0, MAX_PROVIDER_LOOKUPS) without the slice.
InspectedPrefixWhole(content) == content

\* allContent.slice(0, MAX_PROVIDER_LOOKUPS)
InspectedPrefix(content) ==
    SubSeq(content, 1, Min(Len(content), MAX_PROVIDER_LOOKUPS))

\* A worker for every item.
WorkerCountPerItem(limit, length) == length

\* Array.from({ length: Math.min(limit, items.length) }, ...)
WorkerCount(limit, length) == Min(limit, length)

FilterInit ==
    /\ \E made \in SelectionInputs, cat \in Catalogs :
          \E content \in PoolsOf(cat) :
             /\ selectedServices = made.services
             /\ selectedContentTypes = made.types
             /\ selectedRatings = made.ratings
             /\ catalog = cat
             /\ spin = [IdleSpin EXCEPT
                           !.pc = "filter",
                           !.selectedServices = made.services,
                           !.selectedContentTypes = made.types,
                           !.selectedRatings = made.ratings,
                           !.rem0 = InitialSpins,
                           !.allContent = content]
    /\ isSpinning = TRUE
    /\ spinsRemaining = InitialSpins - 1
    /\ usedContentIds = {}
    /\ providerUsageCount = EmptyUsage
    /\ currentContent = "null"
    /\ suggestedItems = EmptySlots
    /\ hist = [InitHist EXCEPT !.outcome = "running", !.called = TRUE,
                               !.inFlight = 1, !.sinceReset = TRUE]
    /\ filterPc = "call"
    /\ currentIndex = 0
    /\ handlers = EmptyMap
    /\ waking = 0
    /\ finished = 0
    /\ passingMatches = 0
    /\ seenIds = {}
    /\ contentWithProviders = {}
    /\ invoked = EmptyMap
    /\ providerLookups = EmptyMap
    /\ ratingLookups = EmptyMap
    /\ LibraryIdle
    /\ CacheIdle
    /\ DiscoveryIdle

\* What a step of the filter leaves alone.
besideFilter == <<component, library, caching, catalog, discovery>>

itemsOfFilter == InspectedPrefix(spin.allContent)

\* The handler of item index up to its first await: it returns at once
\* when the target is reached or the identifier is among seenIds, else it
\* calls getProviders. The worker awaits the handler in either case.
ReturnsAtOnce(index) ==
    \/ passingMatches >= PROVIDER_MATCH_TARGET
    \/ itemsOfFilter[index] \in seenIds

\* runWithConcurrency(itemsToInspect, PROVIDER_CONCURRENCY, handler): no
\* worker for an empty list; else the workers are created one after the
\* other, and each runs up to the first await of its first handler. No
\* record is pushed before the first await, so every first handler calls
\* getProviders.
runWithConcurrency ==
    /\ filterPc = "call"
    /\ LET length == Len(itemsOfFilter)
           count == WorkerCount(PROVIDER_CONCURRENCY, length)
       IN IF length = 0
          THEN /\ filterPc' = "returned"
               /\ UNCHANGED <<currentIndex, handlers, invoked,
                              providerLookups>>
          ELSE /\ filterPc' = "running"
               /\ currentIndex' = count
               /\ invoked' = [index \in 1..count |-> 1]
               /\ handlers' = [index \in 1..count |->
                                  [phase |-> "providers",
                                   matchingProviders |-> <<>>]]
               /\ providerLookups' = [index \in 1..count |-> 1]
    /\ UNCHANGED <<waking, finished, passingMatches, seenIds,
                   contentWithProviders, ratingLookups, besideFilter>>

\* seenIds.add, contentWithProviders.push, passingMatches += 1: the end of
\* a handler that found a matching provider.
PushRecord(index, matchingProviders, rating, passesRating) ==
    /\ seenIds' = seenIds \cup {itemsOfFilter[index]}
    /\ contentWithProviders' = contentWithProviders \cup
          {[item |-> index,
            id |-> itemsOfFilter[index],
            actualProviders |-> matchingProviders,
            prefetchedRating |-> rating,
            passesRatingFilter |-> passesRating]}
    /\ passingMatches' =
          IF passesRating THEN passingMatches + 1 ELSE passingMatches

\* getProviders returned or failed: the handler of the item goes on.
ProvidersReturn ==
    /\ filterPc = "running"
    /\ \E index \in DOMAIN handlers :
          /\ handlers[index].phase = "providers"
          /\ LET answer == OffersOf(catalog, itemsOfFilter[index])
                 matchingProviders ==
                     MatchingProviders(answer.providers,
                                       spin.selectedServices)
             IN IF answer.failed \/ matchingProviders = <<>>
                THEN /\ handlers' = MapDelete(handlers, index)
                     /\ waking' = waking + 1
                     /\ UNCHANGED <<passingMatches, seenIds,
                                    contentWithProviders, ratingLookups>>
                ELSE IF spin.selectedRatings # {}
                THEN /\ handlers' =
                           MapSet(handlers, index,
                                  [phase |-> "rating",
                                   matchingProviders |-> matchingProviders])
                     /\ ratingLookups' =
                           MapSet(ratingLookups, index,
                                  IF index \in DOMAIN ratingLookups
                                  THEN ratingLookups[index] + 1 ELSE 1)
                     /\ UNCHANGED <<waking, passingMatches, seenIds,
                                    contentWithProviders>>
                ELSE /\ PushRecord(index, matchingProviders, "undefined",
                                   TRUE)
                     /\ handlers' = MapDelete(handlers, index)
                     /\ waking' = waking + 1
                     /\ UNCHANGED ratingLookups
    /\ UNCHANGED <<filterPc, currentIndex, finished, invoked,
                   providerLookups, besideFilter>>

\* getContentRating returned: the record is pushed, passing or not.
RatingReturn ==
    /\ filterPc = "running"
    /\ \E index \in DOMAIN handlers :
          /\ handlers[index].phase = "rating"
          /\ LET rating == RatingOf(catalog, itemsOfFilter[index])
             IN PushRecord(index, handlers[index].matchingProviders, rating,
                           PassesRating(rating, spin.selectedRatings))
          /\ handlers' = MapDelete(handlers, index)
          /\ waking' = waking + 1
    /\ UNCHANGED <<filterPc, currentIndex, finished, invoked,
                   providerLookups, ratingLookups, besideFilter>>

\* An index that is handed out leaves the next one out.
NextIndexSkips(index) == index + 2

\* const index = currentIndex; currentIndex += 1;
NextIndex(index) == index + 1

\* A worker runs on after its handler: it leaves the loop when the indices
\* are spent, else it takes the next index and starts the handler.
WorkerRunsOn ==
    /\ filterPc = "running"
    /\ waking > 0
    /\ IF currentIndex >= Len(itemsOfFilter)
       THEN /\ waking' = waking - 1
            /\ finished' = finished + 1
            /\ UNCHANGED <<currentIndex, handlers, invoked,
                           providerLookups>>
       ELSE /\ currentIndex' = NextIndex(currentIndex)
            /\ invoked' =
                  MapSet(invoked, currentIndex + 1,
                         IF currentIndex + 1 \in DOMAIN invoked
                         THEN invoked[currentIndex + 1] + 1 ELSE 1)
            /\ finished' = finished
            /\ IF ReturnsAtOnce(currentIndex + 1)
               THEN UNCHANGED <<waking, handlers, providerLookups>>
               ELSE /\ waking' = waking - 1
                    /\ handlers' =
                          MapSet(handlers, currentIndex + 1,
                                 [phase |-> "providers",
                                  matchingProviders |-> <<>>])
                    /\ providerLookups' =
                          MapSet(providerLookups, currentIndex + 1,
                                 IF currentIndex + 1 \in DOMAIN providerLookups
                                 THEN providerLookups[currentIndex + 1] + 1
                                 ELSE 1)
    /\ UNCHANGED <<filterPc, passingMatches, seenIds, contentWithProviders,
                   ratingLookups, besideFilter>>

\* await Promise.all(workers) is over: the filter returns the list.
FilterReturns ==
    /\ filterPc = "running"
    /\ DOMAIN handlers = {}
    /\ waking = 0
    /\ filterPc' = "returned"
    /\ UNCHANGED <<currentIndex, handlers, waking, finished, passingMatches,
                   seenIds, contentWithProviders, invoked, providerLookups,
                   ratingLookups, besideFilter>>

FilterNext ==
    \/ runWithConcurrency
    \/ ProvidersReturn
    \/ RatingReturn
    \/ WorkerRunsOn
    \/ FilterReturns

FilterSpec == FilterInit /\ [][FilterNext]_vars


(***************************************************************************)
(* chooseContent on the pools and lists that the two titles of Spec do not *)
(* give: a list of more than ResetPoolThreshold records, a pool of         *)
(* MaxAttempts titles, usage counters at and beyond MaxWeight. A behaviour *)
(* starts where spinButton calls chooseContent for the first time, after   *)
(* the discovery and the filter of a spin, and runs the steps of           *)
(* chooseContent and the timeout of the result.                            *)
(***************************************************************************)
\* The records of the filter for the titles ids, in this order.
RecordsOf(ids, providers, rating, passes) ==
    [i \in DOMAIN ids |->
        [id |-> ids[i], actualProviders |-> providers,
         prefetchedRating |-> rating, passesRatingFilter |-> passes]]

Ids(n) == [i \in 1..n |-> i]

\* What chooseContent is called with, and the session it is called in.
\* Without a rating filter every record passes, and the filter returns up
\* to PROVIDER_MATCH_TARGET + PROVIDER_CONCURRENCY - 1 of them.
ChooserInputs ==
    \* a pool of MaxAttempts titles, a record more than ResetPoolThreshold
    { [services |-> {"Netflix"}, ratings |-> {}, used |-> used,
       usage |-> EmptyUsage, allContent |-> Ids(MaxAttempts),
       contentWithProviders |->
           RecordsOf(Ids(ResetPoolThreshold + 1), <<"Netflix">>,
                     "undefined", TRUE)] : used \in {{}, {1}} }
    \cup
    \* a rating filter that no record passes, lists around the threshold
    { [services |-> {"Netflix"}, ratings |-> {"PG"}, used |-> used,
       usage |-> EmptyUsage, allContent |-> Ids(n),
       contentWithProviders |-> RecordsOf(Ids(n), <<"Netflix">>, "R", FALSE)] :
         used \in {{1, 2}},
         n \in {ResetPoolThreshold, ResetPoolThreshold + 1} }
    \cup
    \* no record: the raw pool only
    { [services |-> {"Netflix"}, ratings |-> {}, used |-> used,
       usage |-> EmptyUsage, allContent |-> Ids(3),
       contentWithProviders |-> <<>>] : used \in {{}, {1, 2}} }
    \cup
    \* two services, usage counters below, at and beyond MaxWeight
    { [services |-> {"Netflix", "Hulu"}, ratings |-> {}, used |-> {},
       usage |-> [EmptyUsage EXCEPT !["Netflix"] = netflix,
                                    !["Hulu"] = hulu],
       allContent |-> Ids(3),
       contentWithProviders |->
           RecordsOf(<<1>>, <<"Netflix">>, "undefined", TRUE)
           \o RecordsOf(<<2>>, <<"Hulu">>, "undefined", TRUE)
           \o RecordsOf(<<3>>, <<"Netflix", "Hulu">>, "undefined", TRUE)] :
         netflix \in {0, MaxWeight - 1, MaxWeight, MaxWeight + 2},
         hulu \in {0, MaxWeight} }

ChooserInit ==
    /\ \E in \in ChooserInputs :
          /\ selectedServices = in.services
          /\ selectedContentTypes = {"movie"}
          /\ selectedRatings = in.ratings
          /\ spinsRemaining = InitialSpins - 1 - Cardinality(in.used)
          /\ usedContentIds = in.used
          /\ providerUsageCount = in.usage
          /\ spin = StartPass(
                [IdleSpin EXCEPT
                    !.selectedServices = in.services,
                    !.selectedContentTypes = {"movie"},
                    !.selectedRatings = in.ratings,
                    !.rem0 = InitialSpins - Cardinality(in.used),
                    !.used0 = in.used,
                    !.usage0 = in.usage,
                    !.allContent = in.allContent,
                    !.contentWithProviders = in.contentWithProviders,
                    !.usedIdsSnapshot = in.used],
                1, in.ratings # {})
    /\ isSpinning = TRUE
    /\ currentContent = "null"
    /\ suggestedItems = EmptySlots
    /\ hist = [InitHist EXCEPT !.outcome = "running", !.called = TRUE,
                               !.inFlight = 1, !.sinceReset = TRUE]
    /\ LibraryIdle
    /\ CacheIdle
    /\ FilterIdle
    /\ DiscoveryIdle

ChooserNext ==
    \/ ChooseStep
    \/ FormatStep
    \/ ShowResult

ChooserSpec == ChooserInit /\ [][ChooserNext]_vars


(***************************************************************************)
(* The discovery functions on their own: fetchContentWithStrategies (the   *)
(* component defines it and never calls it) and                            *)
(* fetchContentFromAllProviders (the one spinButton calls). A step is a    *)
(* call of the metadata provider with its answer, or a test that skips a   *)
(* source. Every call may fail with a message or answer with a page of     *)
(* titles; a page may repeat a title and pages overlap. lib/tmdb-secure    *)
(* does not export getPopularByProvider and getRandomContent, which the    *)
(* component imports from it: the calls of strategies 3 and 4 then fail    *)
(* inside their try block, one of the outcomes covered here.               *)
(***************************************************************************)
\* The messages of the errors of callTMDBAPI.
DiscoveryMessages == {"API request failed", "Invalid API key"}

PageOf(from, n) == [i \in 1..n |-> from + i - 1]

\* response.results of a discovery call.
PageAnswers ==
    {<<>>, <<1, 2, 1>>, PageOf(1, 4), PageOf(5, 8), PageOf(1, 20)}

\* A call of the metadata provider throws or returns a page.
Answers ==
    {[failed |-> TRUE, message |-> m, results |-> <<>>] :
        m \in DiscoveryMessages}
    \cup {[failed |-> FALSE, message |-> "", results |-> page] :
            page \in PageAnswers}

\* The merge without its test of the identifier.
PushAll(content, newContent) == content \o newContent

RECURSIVE PushNew(_, _)
\* for (const item of newContent)
\*   if (!allContent.some(c => c.id === item.id)) allContent.push(item);
PushNew(content, newContent) ==
    IF newContent = <<>> THEN content
    ELSE PushNew(IF Head(newContent) \in Range(content)
                 THEN content
                 ELSE Append(content, Head(newContent)),
                 Tail(newContent))

Reverse(list) == [i \in 1..Len(list) |-> list[Len(list) + 1 - i]]

\* list.sort(() => Math.random() - 0.5): the comparator is inconsistent and
\* the order of the result is up to the engine. Every order of a list of up
\* to three items is tried, and three orders of a longer list.
Shuffles(list) ==
    IF Len(list) <= 3
    THEN {[i \in 1..Len(list) |-> list[order[i]]] :
             order \in Permutations(1..Len(list))}
    ELSE {list, Reverse(list), Append(Tail(list), Head(list))}

\* The test that guards a strategy, without the tests of the pool.
StrategyDueWhateverThePool(strategy, d) ==
    CASE strategy = 1 -> d.attempt < 3
      [] strategy = 2 -> Cardinality(selectedContentTypes) > 1
      [] OTHER -> TRUE

\* attempt < 3 && allContent.length < 20;
\* allContent.length < 10 && selectedContentTypes.length > 1;
\* allContent.length < 5, for strategies 3, 4 and 5.
StrategyDue(strategy, d) ==
    CASE strategy = 1 -> d.attempt < 3 /\ Len(d.allContent) < 20
      [] strategy = 2 ->
            Len(d.allContent) < 10 /\ Cardinality(selectedContentTypes) > 1
      [] OTHER -> Len(d.allContent) < 5

\* A catch block that gives up the remaining strategies.
StrategyCaughtGivesUp(d, message) ==
    [d EXCEPT !.lastError = message, !.strategy = 6]

\* catch (error) { lastError = error as Error; }
StrategyCaught(d, message) == [d EXCEPT !.lastError = message]

\* A strategy call and its answer. The loop of strategy 1 comes back to
\* its test, the other strategies are followed by the next one.
StrategyAnswered(d, answer) ==
    LET moved ==
            [d EXCEPT
                !.calls = Append(@, [strategy |-> d.strategy,
                                     before |-> Len(d.allContent),
                                     failed |-> answer.failed,
                                     message |-> answer.message]),
                !.attempt = IF d.strategy = 1 THEN @ + 1 ELSE @,
                !.strategy = IF d.strategy = 1 THEN 1 ELSE @ + 1]
    IN IF answer.failed
       THEN StrategyCaught(moved, answer.message)
       ELSE [moved EXCEPT !.allContent = PushNew(@, answer.results)]

StrategyStep ==
    /\ discovery.fn = "strategies"
    /\ discovery.pc = "running"
    /\ discovery.strategy \in 1..5
    /\ IF StrategyDue(discovery.strategy, discovery)
       THEN \E answer \in Answers :
               discovery' = StrategyAnswered(discovery, answer)
       ELSE discovery' = [discovery EXCEPT !.strategy = @ + 1]
    /\ UNCHANGED <<component, library, caching, filtering>>

\* The test of the throw with the test of the pool left out.
SignalsFailureOnAnyError(d) == d.lastError # "null"

\* if (allContent.length === 0 && lastError) throw createError(API_FAILURE,
\* ..., lastError.message)
SignalsFailure(d) == Len(d.allContent) = 0 /\ d.lastError # "null"

\* The end of fetchContentWithStrategies: the throw or the shuffled pool.
StrategiesEnd ==
    /\ discovery.fn = "strategies"
    /\ discovery.pc = "running"
    /\ discovery.strategy = 6
    /\ IF SignalsFailure(discovery)
       THEN discovery' = [discovery EXCEPT !.pc = "threw",
                                           !.thrown = "API_FAILURE",
                                           !.details = discovery.lastError]
       ELSE \E shuffled \in Shuffles(discovery.allContent) :
               discovery' = [discovery EXCEPT !.pc = "returned",
                                              !.result = shuffled]
    /\ UNCHANGED <<component, library, caching, filtering>>

\* providerMap and providerIdToName of lib/tmdb-secure.
providerMap ==
    [service \in streamingServices |->
        CASE service = "Netflix" -> 8
          [] service = "Disney+" -> 337
          [] service = "Hulu" -> 15
          [] service = "Prime Video" -> 9
          [] service = "HBO Max" -> 1899
          [] service = "Apple TV+" -> 350]

providerIdToName(providerId) ==
    CHOOSE service \in DOMAIN providerMap : providerMap[service] = providerId

\* selectedServices.map(service => providerMap[service]).filter(defined),
\* every provider when none is left.
SelectedProviderIds(services) ==
    LET known == {providerMap[service] :
                     service \in services \cap DOMAIN providerMap}
    IN IF known = {} THEN {providerMap[service] : service \in DOMAIN providerMap}
       ELSE known

\* [...selectedProviderIds].sort(() => Math.random() - 0.5)
ProviderOrders(ids) ==
    {order \in [1..Cardinality(ids) -> ids] :
        \A i, j \in DOMAIN order : order[i] = order[j] => i = j}

\* const maxContentPerProvider = 25; page <= 5
maxContentPerProvider == 25
MaxPages == 5

\* getContentByProvider(contentType, providerId, ...) was called.
Queried(d, providerId) ==
    [d EXCEPT !.queried[providerIdToName(providerId)] = @ + 1]

\* The loop over the providers goes on with the next provider, or ends.
NextProvider(d) ==
    IF d.at < Len(d.shuffledProviders)
    THEN [d EXCEPT !.at = @ + 1, !.page = 1, !.providerContentCount = 0]
    ELSE [d EXCEPT !.pc = "additional", !.at = 0, !.page = 0,
                   !.providerContentCount = 0]

\* A catch block after which no further provider is queried.
ProviderCaughtEndsLoop(d, providerId) ==
    [d EXCEPT !.failedProviders = Append(@, providerIdToName(providerId)),
              !.at = Len(d.shuffledProviders)]

\* catch (error) { failedProviders.push(...) }
ProviderCaught(d, providerId) ==
    [d EXCEPT !.failedProviders = Append(@, providerIdToName(providerId))]

\* for (const providerId of shuffledProviders): a page of the provider, or
\* the end of its pages.
ProviderQuery ==
    /\ discovery.fn = "allProviders"
    /\ discovery.pc = "providers"
    /\ LET providerId == discovery.shuffledProviders[discovery.at]
       IN IF /\ discovery.page <= MaxPages
             /\ discovery.providerContentCount < maxContentPerProvider
          THEN \E answer \in Answers :
                  IF answer.failed
                  THEN discovery' =
                          NextProvider(
                              ProviderCaught(Queried(discovery, providerId),
                                             providerId))
                  ELSE LET merged == PushNew(discovery.allContent,
                                             answer.results)
                       IN discovery' =
                             [Queried(discovery, providerId) EXCEPT
                                 !.allContent = merged,
                                 !.providerContentCount =
                                     @ + Len(merged)
                                       - Len(discovery.allContent),
                                 !.page = @ + 1]
          ELSE discovery' =
                  NextProvider(
                      IF discovery.providerContentCount = 0
                      THEN ProviderCaught(discovery, providerId)
                      ELSE discovery)
    /\ UNCHANGED <<component, library, caching, filtering>>

\* if (allContent.length < 15): getTrendingContent, then the alternate
\* content kind when more than one kind is selected.
AdditionalSources ==
    /\ discovery.fn = "allProviders"
    /\ discovery.pc = "additional"
    /\ IF Len(discovery.allContent) < 15
       THEN \E answer \in Answers :
               discovery' =
                  [discovery EXCEPT
                      !.allContent =
                          IF answer.failed THEN @
                          ELSE PushNew(@, answer.results),
                      !.pc = IF Cardinality(selectedContentTypes) > 1
                             THEN "alternate" ELSE "shuffle",
                      !.at = IF Cardinality(selectedContentTypes) > 1
                             THEN 1 ELSE 0]
       ELSE discovery' = [discovery EXCEPT !.pc = "shuffle"]
    /\ UNCHANGED <<component, library, caching, filtering>>

\* for (const providerId of shuffledProviders.slice(0, 3)): the first page
\* of the alternate content kind.
AlternateQuery ==
    /\ discovery.fn = "allProviders"
    /\ discovery.pc = "alternate"
    /\ IF discovery.at <= Min(3, Len(discovery.shuffledProviders))
       THEN \E answer \in Answers :
               discovery' =
                  [discovery EXCEPT
                      !.allContent =
                          IF answer.failed THEN @
                          ELSE PushNew(@, answer.results),
                      !.at = @ + 1]
       ELSE discovery' = [discovery EXCEPT !.pc = "shuffle", !.at = 0]
    /\ UNCHANGED <<component, library, caching, filtering>>

\* const shuffledContent = [...allContent].sort(...); return shuffledContent
AllProvidersReturn ==
    /\ discovery.fn = "allProviders"
    /\ discovery.pc = "shuffle"
    /\ \E shuffled \in Shuffles(discovery.allContent) :
          discovery' = [discovery EXCEPT !.pc = "returned",
                                         !.result = shuffled]
    /\ UNCHANGED <<component, library, caching, filtering>>

\* The selections and the content kind a discovery function is called with.
DiscoveryInputs ==
    {in \in [fn : {"strategies", "allProviders"},
             services : {{"Netflix"}, {"Netflix", "Hulu"}},
             types : {{"movie"}, {"movie", "tv"}},
             contentType : {"movie", "tv"}] :
        /\ in.contentType \in in.types
        /\ in.fn = "strategies" => in.services = {"Netflix"}}

DiscoveryInit ==
    /\ \E in \in DiscoveryInputs :
          /\ selectedServices = in.services
          /\ selectedContentTypes = in.types
          /\ discovery \in
                IF in.fn = "strategies"
                THEN {[IdleDiscovery EXCEPT !.fn = in.fn, !.pc = "running",
                                            !.contentType = in.contentType,
                                            !.strategy = 1]}
                ELSE {[IdleDiscovery EXCEPT
                          !.fn = in.fn, !.pc = "providers",
                          !.contentType = in.contentType,
                          !.shuffledProviders = order,
                          !.at = 1, !.page = 1] :
                        order \in ProviderOrders(
                                     SelectedProviderIds(in.services))}
    /\ selectedRatings = {}
    /\ isSpinning = FALSE
    /\ spinsRemaining = InitialSpins
    /\ usedContentIds = {}
    /\ providerUsageCount = EmptyUsage
    /\ currentContent = "null"
    /\ suggestedItems = EmptySlots
    /\ spin = IdleSpin
    /\ hist = InitHist
    /\ LibraryIdle
    /\ CacheIdle
    /\ FilterIdle

DiscoveryNext ==
    \/ StrategyStep
    \/ StrategiesEnd
    \/ ProviderQuery
    \/ AdditionalSources
    \/ AlternateQuery
    \/ AllProvidersReturn

DiscoverySpec == DiscoveryInit /\ [][DiscoveryNext]_vars


(***************************************************************************)
(* Properties of the spin pipeline.                                        *)
(***************************************************************************)
\* A spin is in flight between its accepted click and its end.
InFlight == spin.pc # "idle"
\* The asynchronous part of a spin that has not yet selected a title.
Searching == spin.pc \in {"discover", "filter", "choose", "format"}
\* A step in which the spin in flight ends in the catch block.
SpinErrorStep == Searching /\ spin'.pc = "idle"

\* C1: a spin click while a spin is in flight (isSpinning) or while
\* spinsRemaining <= 0 is rejected: from such a state no step starts a
\* spin or a discovery, reports a validation error or lowers
\* spinsRemaining; and at most one spin is in flight at any time.
C1_RejectedClickStartsNothing ==
    /\ [](hist.inFlight <= 1)
    /\ [][(isSpinning \/ spinsRemaining <= 0) =>
            /\ hist'.inFlight <= hist.inFlight
            /\ spinsRemaining' >= spinsRemaining
            /\ (spin'.pc = "discover" => spin = spin')
            /\ (hist'.outcome \in {"running", "PROVIDER_ERROR"} =>
                    hist'.outcome = hist.outcome)]_vars

\* A spin is in flight with no spin left: both tests of the guard hold.
C1_Witness ==
    /\ isSpinning /\ spinsRemaining <= 0
    /\ hist.inFlight = 1 /\ spin.pc = "choose"

\* C2: a spin clicked with no service or no content kind selected ends in
\* the validation error in the click itself: no metadata call was issued,
\* spinsRemaining is what it was before the click, isSpinning is false and
\* no spin is in flight; a spin in flight has a service and a kind.
C2_ValidationError ==
    /\ [](InFlight => /\ spin.selectedServices # {}
                      /\ spin.selectedContentTypes # {})
    /\ [][(hist'.outcome = "PROVIDER_ERROR" /\ hist' # hist) =>
            /\ selectedServices = {} \/ selectedContentTypes = {}
            /\ ~hist'.called
            /\ spinsRemaining' = spinsRemaining
            /\ ~isSpinning'
            /\ spin' = IdleSpin
            /\ UNCHANGED <<usedContentIds, providerUsageCount>>]_vars

\* The click with a service but no content kind was answered by the
\* validation error.
C2_Witness ==
    /\ hist.outcome = "PROVIDER_ERROR" /\ ~hist.called
    /\ selectedServices # {} /\ selectedContentTypes = {}
    /\ ~isSpinning /\ spinsRemaining = InitialSpins

\* C3: whenever a spin ends in an error, spinsRemaining is restored to the
\* value it had when the spin started and isSpinning is false.
C3_ErrorRestoresBudget ==
    [][SpinErrorStep =>
         (spinsRemaining' = spin.rem0 /\ ~isSpinning')]_vars

\* C4: spinsRemaining starts at 3 and a successful spin costs exactly one,
\* so at most 3 of the spins started since the latest session reset (or
\* since the start) complete successfully.
C4_AtMostThreeSuccesses == hist.successes <= InitialSpins

\* C5: the title a spin returns is not in the served set as it was when
\* the spin started, unless chooseContent reset the served set during
\* that spin.
C5_NotServedAtStart ==
    spin.pc = "selected" =>
        \/ spin.formattedContent.id \notin spin.used0
        \/ hist.run.didReset

\* A spin that started with a served title returned another one.
C5_Witness ==
    /\ spin.pc = "selected"
    /\ spin.used0 # {}
    /\ spin.formattedContent.id \notin spin.used0
    /\ ~hist.run.didReset

\* The providers reported for the title of the selected spin.
ReportedProviders == Range(spin.formattedContent.providers)

\* C6: on every path (matched or fallback, rating enforced or relaxed) the
\* providers reported for the returned title include at least one member
\* of selectedServices.
C6_ServiceOnEveryPath ==
    spin.pc = "selected" =>
        ReportedProviders \cap spin.selectedServices # {}

\* C6 as amended: a title of the matched path, rating enforced or relaxed,
\* is reported with at least one member of selectedServices; only a title
\* of the fallback path can be reported with none.
C6_ServiceOnMatchedPath ==
    spin.pc = "selected" =>
        /\ spin.path \in {"matched", "fallback"}
        /\ spin.path = "matched" =>
               ReportedProviders \cap spin.selectedServices # {}

\* The relaxed pass returned a record of the filter.
C6_Witness ==
    /\ spin.pc = "selected" /\ spin.path = "matched"
    /\ spin.selectedRatings # {} /\ spin.pass = 2

\* A record of the filter that is not served at the start of the spin and
\* passes the rating filter when one is active.
EligibleRecord(item) ==
    /\ item.id \notin spin.used0
    /\ spin.selectedRatings # {} => item.passesRatingFilter

HasEligibleRecord ==
    \E i \in DOMAIN spin.contentWithProviders :
        EligibleRecord(spin.contentWithProviders[i])

\* C7: when the filter returned an eligible record and no detail lookup of
\* the spin failed, the spin does not fail and the title it returns is one
\* of the filter's records, reported with exactly that record's
\* actualProviders, a non-empty subset of selectedServices.
C7_ReturnsFilterRecord ==
    [][(spin.pc \in {"choose", "format"} /\ HasEligibleRecord
        /\ ~hist.run.detailFailed /\ ~hist'.run.detailFailed
        /\ spin' # spin) =>
          /\ spin'.pc # "idle"
          /\ spin'.pc = "selected" =>
               /\ \E i \in DOMAIN spin.contentWithProviders :
                     LET item == spin.contentWithProviders[i]
                     IN /\ item.id = spin'.formattedContent.id
                        /\ item.actualProviders =
                               spin'.formattedContent.providers
               /\ spin'.formattedContent.providers # <<>>
               /\ Range(spin'.formattedContent.providers)
                      \subseteq spin.selectedServices]_vars

\* A spin with an eligible record returned a title of the matched path.
C7_Witness ==
    /\ spin.pc = "selected" /\ spin.path = "matched" /\ spin.pass = 1
    /\ ~hist.run.detailFailed
    /\ Len(spin.formattedContent.providers) = 2

\* The titles of the raw pool that are neither served nor tried.
UnservedPool ==
    {id \in Range(spin.allContent) :
        id \notin spin.usedIdsSnapshot /\ id \notin spin.seenThisSpin}

\* C8: with an empty matched list and an unserved title in the raw pool,
\* the selector picks a title of the raw pool that is not served and looks
\* up its providers directly; unless its detail lookups fail or an
\* enforced rating rejects it, that title is returned with what the lookup
\* gave, be it nothing or no selected service.
C8_FallbackReturnsTitle ==
    /\ [][(spin.pc = "choose" /\ spin.contentWithProviders = <<>>
           /\ spin.attempt < MaxAttempts /\ UnservedPool # {}
           /\ spin' # spin) =>
             /\ spin'.pc = "format" /\ spin'.path = "fallback"
             /\ spin'.candidate \in UnservedPool
             /\ spin'.attempt = spin.attempt]_vars
    /\ [][(spin.pc = "format" /\ spin.path = "fallback" /\ spin' # spin) =>
             /\ spin'.pc = "selected" =>
                  /\ spin'.formattedContent.id = spin.candidate
                  /\ spin'.formattedContent.providers =
                         spin.candidateProviders
             /\ (~spin.enforceRating /\ ~hist.run.detailFailed) =>
                  (spin'.pc = "selected" \/ hist'.run.detailFailed)]_vars

\* A title of the fallback path was returned with no provider at all.
C8_Witness ==
    /\ spin.pc = "selected" /\ spin.path = "fallback"
    /\ spin.formattedContent.providers = <<>>
    /\ spin.formattedContent.id \in Titles

\* C9: with a rating filter, the first pass enforces the rating; when it
\* ends without a candidate (after at most 16 attempts) the spin does not
\* fail but starts the pass without the rating constraint, over the same
\* pool and records; the spin fails with NO_CONTENT only out of the
\* relaxed pass.
C9_RelaxedRetry ==
    /\ [](spin.attempt <= MaxAttempts)
    /\ []((spin.pc \in {"choose", "format"} /\ spin.selectedRatings # {}) =>
            /\ spin.pass \in {1, 2}
            /\ spin.enforceRating <=> spin.pass = 1)
    /\ [][(spin.pc \in {"choose", "format"} /\ spin.selectedRatings # {}
           /\ spin.pass = 1 /\ spin' # spin) =>
             /\ spin'.pc # "idle"
             /\ spin'.pass # 1 =>
                  /\ spin'.pass = 2 /\ spin'.pc = "choose"
                  /\ spin'.attempt = 0 /\ spin'.seenThisSpin = {}
                  /\ spin'.allContent = spin.allContent
                  /\ spin'.contentWithProviders = spin.contentWithProviders
                  /\ UNCHANGED <<isSpinning, spinsRemaining>>]_vars

\* The relaxed pass has just started.
C9_Witness ==
    /\ spin.pc = "choose" /\ spin.pass = 2 /\ spin.attempt = 0
    /\ spin.selectedRatings # {} /\ ~spin.enforceRating

\* C10: with a rating filter, a spin in which no fetched rating passed the
\* filter returns no title (it resolves to NO_CONTENT).
C10_AllFailRatingNoContent ==
    (spin.pc = "selected" /\ spin.selectedRatings # {}) =>
        hist.run.ratingPassed

\* C10 as amended: with a rating filter, a spin in which no fetched rating
\* passed the filter returns a title only out of the relaxed pass, and the
\* rating of that title is outside the selection; it resolves to
\* NO_CONTENT only when the relaxed pass finds none either, and then
\* isSpinning is false and spinsRemaining is raised by one, to its value
\* at the start of the spin unless the session was reset meanwhile.
C10_RelaxedAfterRatingFailure ==
    /\ []((spin.pc = "selected" /\ spin.selectedRatings # {}
           /\ ~hist.run.ratingPassed) =>
             /\ spin.pass = 2
             /\ spin.formattedContent.rating \notin spin.selectedRatings)
    /\ [][(spin.pc \in {"choose", "format"} /\ spin.selectedRatings # {}
           /\ spin'.pc = "idle") =>
             /\ spin.pass = 2
             /\ hist'.outcome = "NO_CONTENT"
             /\ ~isSpinning'
             /\ spinsRemaining' = spinsRemaining + 1
             /\ hist.sinceReset => spinsRemaining' = spin.rem0]_vars

\* Every rating fetched in the spin failed the filter, and the relaxed
\* pass returned a title.
C10_Witness ==
    /\ spin.pc = "selected" /\ spin.selectedRatings # {}
    /\ ~hist.run.ratingPassed
    /\ spin.formattedContent.rating = "R"


(***************************************************************************)
(* C11: if every discovery call of a spin returned no title and at least   *)
(* one of them threw, the spin ends in an error of type API_FAILURE (with  *)
(* the message of the last underlying error as its detail).                *)
(* The code ends that spin with NO_CONTENT: the errors of the discovery    *)
(* are caught inside fetchContentFromAllProviders, and the function that   *)
(* raises API_FAILURE, fetchContentWithStrategies, is never called.        *)
(***************************************************************************)
C11_EmptyAfterThrowIsApiFailure ==
    hist.emptyAfterThrow => hist.outcome = "API_FAILURE"


(***************************************************************************)
(* C12: the failure of one per-item lookup is recovered where it happens:  *)
(* the filter drops the title, the fallback lookup reports no provider,    *)
(* the candidate whose details fail is skipped. No step of the filter and  *)
(* no formatContentItem step ends the spin; a spin that found a pool ends  *)
(* in an error only from the attempt loop, when every title of the pool    *)
(* was tried in the final pass or the 16 attempts are spent, and every     *)
(* attempt spent tried one more title or reset the served set once.        *)
(***************************************************************************)
C12_LookupFailureIsLocal ==
    [][ (SpinErrorStep /\ spin.pc # "discover") =>
            /\ spin.pc = "choose"
            /\ ~RetryRelaxed(NoContent, spin.selectedRatings) \/ spin.pass = 2
            /\ \/ Range(spin.allContent) \subseteq spin.seenThisSpin
               \/ spin.attempt >= MaxAttempts
            /\ spin.attempt = Cardinality(spin.seenThisSpin)
                              + (IF spin.hasResetUsedContent THEN 1 ELSE 0)
      ]_vars

\* The details of one candidate failed and the spin returned another title.
C12_Witness ==
    /\ spin.pc = "selected"
    /\ hist.run.detailFailed
    /\ hist.outcome = "selected"


(***************************************************************************)
(* C13: once a spin has selected its title and until the result is shown,  *)
(* the served set contains the identifier of that title; if no reset (of   *)
(* the session or inside chooseContent) occurred during the spin, the      *)
(* served set is its value at the start of the spin plus that identifier.  *)
(* A session reset between the selection and the display empties the       *)
(* served set, so the spin ends with its title shown and not served.       *)
(***************************************************************************)
C13_ServedSetHoldsReturned ==
    spin.pc = "selected" =>
        /\ spin.formattedContent.id \in usedContentIds
        /\ (hist.sinceReset /\ ~hist.run.didReset) =>
              usedContentIds = spin.used0 \cup {spin.formattedContent.id}


(***************************************************************************)
(* C14: when a spin has selected a matched record and no reset occurred    *)
(* during the spin, the usage counter of the record's primary (first)      *)
(* service is one higher than at the start of the spin and every other     *)
(* counter is as it was, for matched pools of any size and however many    *)
(* candidates were rejected before.                                        *)
(* selectBalancedContent returns the only record of a pool of one without  *)
(* counting it, and counts every record it draws, also one that is         *)
(* rejected afterwards.                                                    *)
(***************************************************************************)
C14_PrimaryUsageCountedOnce ==
    (/\ spin.pc = "selected"
     /\ spin.path = "matched"
     /\ hist.sinceReset
     /\ ~hist.run.didReset)
    => providerUsageCount =
           BumpUsage(spin.usage0, spin.formattedContent.providers[1])


(***************************************************************************)
(* C15: the session reset (GET FRESH SPINS) is taken only with             *)
(* spinsRemaining <= 0; it sets spinsRemaining to 3, empties the served    *)
(* set and the usage counters and clears the shown content and the three   *)
(* suggestion slots.                                                       *)
(***************************************************************************)
C15_SessionReset ==
    [][ ResetClick =>
            /\ spinsRemaining <= 0
            /\ spinsRemaining' = 3
            /\ usedContentIds' = {}
            /\ \A p \in UsageKeys : providerUsageCount'[p] = 0
            /\ currentContent' = "null"
            /\ \A i \in DOMAIN suggestedItems' : suggestedItems'[i] = "null"
      ]_vars

\* A reset after three shown results: a result was shown last, and yet
\* nothing is on display, nothing is served and the budget is full.
C15_Witness ==
    /\ hist.outcome = "shown"
    /\ spin.pc = "idle"
    /\ spinsRemaining = 3
    /\ usedContentIds = {}
    /\ UsageSum(providerUsageCount) = 0
    /\ currentContent = "null"
    /\ suggestedItems = EmptySlots


(***************************************************************************)
(* Properties of the library functions (LibrarySpec).                      *)
(***************************************************************************)
\* The aliases of one service named by C16.
AmazonAliases ==
    {"Amazon Prime Video", "Amazon Video", "Amazon Prime", "Prime Video"}

HboAliases == {"HBO", "Max", "HBO Max"}

AliasesOf(name) ==
    IF name \in AmazonAliases THEN AmazonAliases
    ELSE IF name \in HboAliases THEN HboAliases
    ELSE {name}

(***************************************************************************)
(* C16: the normalizer the component uses (lib/tmdb-secure) gives the same *)
(* canonical name to all aliases of one service: to Amazon Prime Video,    *)
(* Amazon Video, Amazon Prime and Prime Video, and to HBO, Max and HBO     *)
(* Max.                                                                    *)
(* Its table has no key for Amazon Prime Video, Amazon Video and HBO,      *)
(* which are returned as they are.                                         *)
(***************************************************************************)
C16_AliasesShareOneName ==
    normalized # <<>> =>
        \A alias \in AliasesOf(providerName) :
            normalized[1] = normalizeProviderName(alias)


OfferedBy(providers, kinds, service) ==
    \E kind \in kinds :
        \E i \in DOMAIN providers[kind] :
            normalizeProviderName(providers[kind][i]) = service

(***************************************************************************)
(* C18: only offers of the kinds flatrate, free and ads make a title       *)
(* available on a service: a service that only sells or rents the title    *)
(* (kinds buy, rent) is not in the result of formatProviders, and the      *)
(* Provider-Match Filter does not match the title to it.                   *)
(* formatProviders concatenates the five kinds, buy and rent included.     *)
(***************************************************************************)
C18_OnlySubscriptionOffersCount ==
    formatted.done =>
        \A service \in streamingServices :
            (/\ OfferedBy(offers, {"buy", "rent"}, service)
             /\ ~OfferedBy(offers, {"flatrate", "free", "ads"}, service))
            => /\ ~(service \in Range(formatted.providers))
               /\ \A selected \in SUBSET ServiceInputs :
                     ~(service \in Range(MatchingProviders(offers, selected)))


(***************************************************************************)
(* Properties of the response cache (CacheSpec).                           *)
(***************************************************************************)
\* The entries held for the key, in memory and in localStorage.
HeldEntries(key) ==
    {memoryCache[k] : k \in DOMAIN memoryCache \cap {key}}
    \cup {localStorage[k] : k \in DOMAIN localStorage \cap {key}}

\* The age of the entry is less than the ttl it was stored with.
Young(entry) == now - entry.timestamp < entry.ttl

(***************************************************************************)
(* C19: apiCache.get(key) returns the stored data only while the age of    *)
(* the entry (now - timestamp) is less than the ttl it was stored with,    *)
(* and null once the age has reached the ttl, for an entry in memory or    *)
(* in localStorage, in both variants of lib/cache.                         *)
(* The in-memory variant tests age > ttl: at age = ttl it still returns    *)
(* the data.                                                               *)
(***************************************************************************)
C19_GetWithinTtlOnly ==
    [][ /\ CachedCall =>
            LET held == HeldEntries(CacheKeyOf(endpoint))
            IN IF \E entry \in held : Young(entry)
               THEN \E entry \in held :
                       Young(entry) /\ returned'.data = entry.data
               ELSE returned'.data = "null"
        /\ SimpleGet =>
            IF "key" \in DOMAIN cache /\ Young(cache["key"])
            THEN returned'.data = cache["key"].data
            ELSE returned'.data = "null"
      ]_vars


(***************************************************************************)
(* C20: the cached wrappers memoize by key: a call made while an entry     *)
(* stored by a completed call with the same arguments is within its ttl    *)
(* returns the stored value and does not call the wrapped operation, for   *)
(* every value that operation can return, null and the empty list          *)
(* included.                                                               *)
(* A stored null is what apiCache.get returns for a miss as well: the      *)
(* wrappers of getProviders and getContentRating call the wrapped          *)
(* operation again.                                                        *)
(***************************************************************************)
C20_RepeatedCallIsServed ==
    [][ (/\ CachedCall
         /\ \E entry \in HeldEntries(CacheKeyOf(endpoint)) : Young(entry))
        => /\ pending' = pending
           /\ \E entry \in HeldEntries(CacheKeyOf(endpoint)) :
                 Young(entry) /\ returned'.data = entry.data
      ]_vars


(***************************************************************************)
(* C21: every started spin ends. When every metadata call returns or       *)
(* fails and the timeout of the result fires, a spin that passed the       *)
(* guard of spinButton (isSpinning is set) leads to a state in which       *)
(* isSpinning is false and the result is shown or an error is reported.    *)
(***************************************************************************)
SpinOutcomes == {"shown", "NO_CONTENT", "API_FAILURE", "PROVIDER_ERROR"}

C21_SpinEnds ==
    (isSpinning /\ InFlight) ~>
        (~isSpinning /\ ~InFlight /\ hist.outcome \in SpinOutcomes)

\* A spin ended with its result shown after both passes of chooseContent.
C21_Witness ==
    /\ ~isSpinning
    /\ hist.outcome = "shown"
    /\ hist.successes = 2
    /\ currentContent = "item"


(***************************************************************************)
(* Properties of the Provider-Match Filter and its workers.                *)
(***************************************************************************)
\* The records of the list that pass the rating filter.
PassingRecords == {r \in contentWithProviders : r.passesRatingFilter}

\* The handlers in flight.
HandlersInFlight == Cardinality(DOMAIN handlers)

\* C22: every record returned by findContentWithMatchingProviders has an
\* actualProviders list that is not empty and holds selected services only.
C22_RecordsMatchSelection ==
    filterPc = "returned" =>
        \A r \in contentWithProviders :
            /\ r.actualProviders # <<>>
            /\ Range(r.actualProviders) \subseteq selectedServices

\* The filter returned the record of a title that Hulu streams and Netflix
\* rents: only the selected Netflix is in its actualProviders.
C22_Witness ==
    /\ filterPc = "returned"
    /\ selectedServices = {"Netflix"}
    /\ \E r \in contentWithProviders :
          /\ r.actualProviders = <<"Netflix">>
          /\ "Hulu" \in Range(formatProviders(OffersOf(catalog, r.id).providers))

\* C23: the filter calls getProviders only for titles among the first
\* MAX_PROVIDER_LOOKUPS entries of the pool, for each at most once: at most
\* min(24, pool size) calls per call of the filter, and every record of the
\* list is that of a title of this prefix.
C23_LookupsWithinPrefix ==
    LET prefix == 1..Min(MAX_PROVIDER_LOOKUPS, Len(spin.allContent))
    IN /\ DOMAIN providerLookups \subseteq prefix
       /\ \A index \in DOMAIN providerLookups : providerLookups[index] <= 1
       /\ Cardinality(DOMAIN providerLookups)
             <= Min(MAX_PROVIDER_LOOKUPS, Len(spin.allContent))
       /\ \A r \in contentWithProviders :
             \E index \in prefix : spin.allContent[index] = r.id

\* The filter returned after one lookup for each title of the prefix of a
\* longer pool.
C23_Witness ==
    /\ filterPc = "returned"
    /\ Len(spin.allContent) > MAX_PROVIDER_LOOKUPS
    /\ DOMAIN providerLookups = 1..MAX_PROVIDER_LOOKUPS

\* C24: at every moment of the filter at most PROVIDER_CONCURRENCY handlers
\* are in flight, and at most min(4, number of items).
C24_ConcurrencyCap ==
    /\ HandlersInFlight <= PROVIDER_CONCURRENCY
    /\ HandlersInFlight
          <= Min(PROVIDER_CONCURRENCY,
                 Min(MAX_PROVIDER_LOOKUPS, Len(spin.allContent)))

\* Four handlers are in flight after a worker went on to a further item.
C24_Witness ==
    /\ HandlersInFlight = PROVIDER_CONCURRENCY
    /\ currentIndex > PROVIDER_CONCURRENCY
    /\ \E index \in DOMAIN handlers : handlers[index].phase = "rating"

(***************************************************************************)
(* C25: once passingMatches has reached PROVIDER_MATCH_TARGET no provider  *)
(* lookup and no rating lookup is started by any worker, whatever the      *)
(* interleaving.                                                           *)
(* The handler tests the counter before getProviders only: a handler whose *)
(* provider lookup was in flight when the counter reached the target goes  *)
(* on to call getContentRating.                                            *)
(***************************************************************************)
C25_NoLookupAfterTarget ==
    [][ passingMatches >= PROVIDER_MATCH_TARGET =>
            /\ providerLookups' = providerLookups
            /\ ratingLookups' = ratingLookups ]_vars

(***************************************************************************)
(* C26: the lookups in flight when the target is reached may complete, but *)
(* their results are discarded: the returned list holds at most            *)
(* PROVIDER_MATCH_TARGET records that pass the rating filter.              *)
(* The handler pushes its record whatever the counter says.                *)
(***************************************************************************)
C26_AtMostTargetPassing ==
    filterPc = "returned" =>
        Cardinality(PassingRecords) <= PROVIDER_MATCH_TARGET

\* The handlers, by index, that called getContentRating and have ended.
RatedAndEnded == DOMAIN ratingLookups \ DOMAIN handlers

\* C27: with a rating filter, a title offered by a selected service whose
\* rating is missing (also when it could not be fetched) or is not among
\* selectedRatings is kept: its record is in the list with
\* passesRatingFilter = false, and the early-stop counter counts the passing
\* records only.
C27_FailingRatingIsKept ==
    selectedRatings # {} =>
        /\ \A index \in RatedAndEnded :
              \E r \in contentWithProviders :
                 /\ r.id = spin.allContent[index]
                 /\ r.prefetchedRating = RatingOf(catalog, r.id)
                 /\ r.passesRatingFilter = (r.prefetchedRating \in selectedRatings)
        /\ \A r \in contentWithProviders :
              r.passesRatingFilter = (r.prefetchedRating \in selectedRatings)
        /\ passingMatches = Cardinality(PassingRecords)

\* The returned list holds a record with a rating that is not selected and
\* a record without a rating, both marked, beside a passing one.
C27_Witness ==
    /\ filterPc = "returned"
    /\ selectedRatings = {"PG"}
    /\ \E r \in contentWithProviders :
          r.prefetchedRating = "R" /\ ~r.passesRatingFilter
    /\ \E r \in contentWithProviders :
          r.prefetchedRating = "null" /\ ~r.passesRatingFilter
    /\ passingMatches > 0


(***************************************************************************)
(* Properties of the selection.                                            *)
(***************************************************************************)
\* providerPool and fallbackPool of the iteration that s is about to run.
ProviderPoolOf(s) ==
    SelectSeq(s.contentWithProviders, LAMBDA item :
        MatchedEligible(item, s.usedIdsSnapshot, s.seenThisSpin,
                        s.enforceRating))

FallbackPoolOf(s) ==
    SelectSeq(s.allContent, LAMBDA id :
        FallbackEligible(id, s.usedIdsSnapshot, s.seenThisSpin))

\* max(1, 10 - count), written out.
FlooredWeight(count) == IF 10 - count >= 1 THEN 10 - count ELSE 1

\* C28: the weight of a candidate is max(1, 10 - usage count of its primary
\* service): at least 1 for every count and never larger for a larger
\* count; and of two or more candidates given to selectBalancedContent
\* every one is a possible result of the draw.
C28_EveryCandidateCanBeDrawn ==
    spin.pc = "choose" =>
        LET prioritizedPool ==
                PrioritizedPool(ProviderPoolOf(spin), spin.enforceRating)
            currentUsage == spin.usage0
        IN /\ \A i \in DOMAIN prioritizedPool :
                LET item == prioritizedPool[i]
                    primaryProvider == PrimaryProvider(item)
                IN /\ Weight(item, currentUsage) >= 1
                   /\ Weight(item, currentUsage) =
                         FlooredWeight(currentUsage[primaryProvider])
                   /\ \A more \in 1..MaxWeight :
                         Weight(item, [currentUsage EXCEPT
                                          ![primaryProvider] = @ + more])
                            <= Weight(item, currentUsage)
           /\ Len(prioritizedPool) >= 2 =>
                 \A i \in DOMAIN prioritizedPool :
                    \E chosen \in selectBalancedContent(prioritizedPool,
                                                        currentUsage) :
                       chosen.content = prioritizedPool[i]

\* The first draw of a spin returned a title of a service used 10 times or
\* more although a title of a service never used was in the list.
C28_Witness ==
    /\ spin.pc = "format"
    /\ spin.path = "matched"
    /\ Cardinality(spin.seenThisSpin) = 1
    /\ spin.usage0[spin.candidateProviders[1]] >= MaxWeight
    /\ \E i \in DOMAIN spin.contentWithProviders :
          spin.usage0[PrimaryProvider(spin.contentWithProviders[i])] = 0

\* The conditions of the recycle policy for the iteration s is about to run.
RecycleDue(s) ==
    \/ /\ Len(s.contentWithProviders) > 10
       /\ ProviderPoolOf(s) = <<>>
    \/ /\ Len(s.contentWithProviders) = 0 \/ ProviderPoolOf(s) = <<>>
       /\ FallbackPoolOf(s) = <<>>

\* A step that runs an iteration of the attempt loop up to its candidate.
ChooserIterates == spin.pc = "choose" /\ spin.attempt < MaxAttempts

(***************************************************************************)
(* C29: recycle policy of chooseContent. When no eligible matched record   *)
(* remains and the matched list has more than 10 records, or when no       *)
(* eligible title remains in the raw pool, the served set (and its         *)
(* snapshot) is emptied and the iteration ends without a candidate, so     *)
(* that the selection is attempted again; this happens at most once per    *)
(* pass, in no other case, and the titles tried in the pass stay excluded. *)
(***************************************************************************)
C29_RecycleOncePerPass ==
    [][ ChooserIterates =>
          /\ (RecycleDue(spin) /\ ~spin.hasResetUsedContent) =>
                /\ usedContentIds' = {}
                /\ spin'.usedIdsSnapshot = {}
                /\ spin'.hasResetUsedContent
                /\ spin'.pc = "choose"
                /\ spin'.pass = spin.pass
                /\ spin'.candidate = 0
                /\ spin'.seenThisSpin = spin.seenThisSpin
          /\ (~RecycleDue(spin) \/ spin.hasResetUsedContent) =>
                /\ usedContentIds' = usedContentIds
                /\ (spin'.pc # "idle" /\ spin'.pass = spin.pass) =>
                      /\ spin'.hasResetUsedContent = spin.hasResetUsedContent
                      /\ spin'.usedIdsSnapshot = spin.usedIdsSnapshot
          /\ spin'.pc = "format" =>
                /\ spin'.candidate \notin spin.seenThisSpin
                /\ spin'.candidate \notin spin.usedIdsSnapshot
                /\ spin.seenThisSpin \subseteq spin'.seenThisSpin
      ]_vars

\* After the reset of a pass on a list of more than 10 records, a served
\* title is the candidate, and titles tried before the reset stay excluded.
C29_Witness ==
    /\ spin.pc = "format"
    /\ spin.hasResetUsedContent
    /\ Len(spin.contentWithProviders) > 10
    /\ spin.candidate \in spin.used0
    /\ usedContentIds = {}
    /\ Cardinality(spin.seenThisSpin) > 1

(***************************************************************************)
(* C30: a pass of chooseContent runs at most 16 iterations and ends with   *)
(* a chosen title or with none; every iteration tries a title that was not *)
(* tried in the pass, or resets the served set, or ends the loop; with at  *)
(* most two passes a spin evaluates at most 32 candidates.                 *)
(***************************************************************************)
C30_BoundedAttempts ==
    /\ [](spin.pc \in {"choose", "format"} =>
            /\ spin.pass \in {1, 2}
            /\ spin.attempt <= 16
            /\ Cardinality(spin.seenThisSpin)
                  + (IF spin.hasResetUsedContent THEN 1 ELSE 0) <= 16
            /\ spin.pass * Cardinality(spin.seenThisSpin) <= 32)
    /\ [][ (spin.pc = "choose" /\ spin'.pc = "format") =>
              /\ spin'.candidate \notin spin.seenThisSpin
              /\ spin'.seenThisSpin = spin.seenThisSpin \cup {spin'.candidate}
         ]_vars
    /\ [][ (spin.pc = "choose" /\ spin.attempt >= 16) =>
              \/ spin'.pc = "idle" /\ hist'.outcome = "NO_CONTENT"
              \/ spin'.pc = "choose" /\ spin'.pass = spin.pass + 1
                 /\ spin'.attempt = 0 /\ spin'.seenThisSpin = {}
         ]_vars
    /\ [][ spin'.pc = "selected" =>
              /\ spin.pc = "format"
              /\ spin'.formattedContent.id = spin.candidate
              /\ spin.candidate \in Range(spin.allContent)
         ]_vars

\* The sixteen iterations of a pass are spent while a title of the pool
\* was never tried.
C30_Witness ==
    /\ spin.pc = "choose"
    /\ spin.attempt = 16
    /\ Range(spin.allContent) \ spin.seenThisSpin # {}
    /\ Cardinality(spin.seenThisSpin) = 15


(***************************************************************************)
(* Properties of the discovery functions (DiscoverySpec).                  *)
(***************************************************************************)
StrategyCalls == discovery.calls

CallsOf(strategy) ==
    {i \in DOMAIN StrategyCalls : StrategyCalls[i].strategy = strategy}

FailedCalls == {i \in DOMAIN StrategyCalls : StrategyCalls[i].failed}

\* C31: fetchContentWithStrategies tries its strategies in the order 1 to
\* 5: strategy 1 makes at most 3 page queries, each with fewer than 20
\* titles in the pool; strategy 2 is tried at most once, with fewer than 10
\* titles in the pool and more than one content kind selected; strategies
\* 3, 4 and 5 are each tried at most once, with fewer than 5 titles in the
\* pool at that point.
C31_StrategiesInOrder ==
    discovery.fn = "strategies" =>
       /\ \A i \in DOMAIN StrategyCalls :
             i > 1 => StrategyCalls[i - 1].strategy <= StrategyCalls[i].strategy
       /\ Cardinality(CallsOf(1)) <= 3
       /\ \A strategy \in 2..5 : Cardinality(CallsOf(strategy)) <= 1
       /\ \A i \in CallsOf(1) : StrategyCalls[i].before < 20
       /\ \A i \in CallsOf(2) :
             /\ StrategyCalls[i].before < 10
             /\ Cardinality(selectedContentTypes) > 1
       /\ \A i \in CallsOf(3) \cup CallsOf(4) \cup CallsOf(5) :
             StrategyCalls[i].before < 5

\* A call that went through the five strategies, three pages of the first,
\* and returned titles.
C31_Witness ==
    /\ discovery.fn = "strategies"
    /\ discovery.pc = "returned"
    /\ Cardinality(CallsOf(1)) = 3
    /\ \A strategy \in 2..5 : CallsOf(strategy) # {}
    /\ Len(discovery.result) > 0

\* The strategy expected after the failed call i when the pool holds fewer
\* than 5 titles.
StrategyAfter(i) ==
    IF StrategyCalls[i].strategy = 1
    THEN IF Cardinality({j \in CallsOf(1) : j <= i}) < 3 THEN 1
         ELSE IF Cardinality(selectedContentTypes) > 1 THEN 2 ELSE 3
    ELSE StrategyCalls[i].strategy + 1

\* C32: when fetchContentWithStrategies has ended, it threw API_FAILURE if
\* and only if the final pool is empty and one of its strategy calls
\* failed, the detail being the message of the last failed call; with an
\* empty pool and no failed call it returned the empty list; and a failed
\* call that leaves fewer than 5 titles in the pool is followed by the
\* call of the next strategy.
C32_ApiFailureIffEmptyAndFailed ==
    (discovery.fn = "strategies" /\ discovery.pc \in {"threw", "returned"}) =>
       /\ discovery.pc = "threw" <=>
             (Len(discovery.allContent) = 0 /\ FailedCalls # {})
       /\ discovery.pc = "threw" =>
             /\ discovery.thrown = "API_FAILURE"
             /\ \E last \in FailedCalls :
                   /\ \A i \in FailedCalls : i <= last
                   /\ discovery.details = StrategyCalls[last].message
       /\ (Len(discovery.allContent) = 0 /\ FailedCalls = {}) =>
             /\ discovery.thrown = "none"
             /\ discovery.result = <<>>
       /\ \A i \in FailedCalls :
             (StrategyCalls[i].before < 5 /\ StrategyCalls[i].strategy < 5) =>
                /\ i < Len(StrategyCalls)
                /\ StrategyCalls[i + 1].strategy = StrategyAfter(i)
                /\ StrategyCalls[i + 1].before = StrategyCalls[i].before

\* API_FAILURE after two failures with different messages and an empty
\* page: the detail is the later message.
C32_Witness ==
    /\ discovery.fn = "strategies"
    /\ discovery.pc = "threw"
    /\ discovery.details = "Invalid API key"
    /\ \E i, j \in DOMAIN StrategyCalls :
          /\ StrategyCalls[i].failed
          /\ StrategyCalls[i].message = "API request failed"
          /\ ~StrategyCalls[j].failed

\* C33: fetchContentFromAllProviders never throws, and once its loop over
\* the providers is over every selected service was queried at least once,
\* whatever calls failed.
C33_EveryServiceQueried ==
    discovery.fn = "allProviders" =>
       /\ discovery.thrown = "none"
       /\ discovery.pc # "threw"
       /\ discovery.pc \in {"additional", "alternate", "shuffle", "returned"} =>
             \A service \in selectedServices : discovery.queried[service] >= 1

\* The call returned after the first query of the first provider failed:
\* the second provider was queried all the same.
C33_Witness ==
    /\ discovery.fn = "allProviders"
    /\ discovery.pc = "returned"
    /\ Len(discovery.shuffledProviders) = 2
    /\ Len(discovery.failedProviders) >= 1
    /\ discovery.failedProviders[1] =
          providerIdToName(discovery.shuffledProviders[1])
    /\ discovery.queried[discovery.failedProviders[1]] = 1
    /\ discovery.queried[providerIdToName(discovery.shuffledProviders[2])] > 1

NoRepeat(list) == \A i, j \in DOMAIN list : list[i] = list[j] => i = j

Occurrences(list, x) == Cardinality({i \in DOMAIN list : list[i] = x})

IsPermutation(a, b) ==
    /\ Len(a) = Len(b)
    /\ \A x \in Range(a) \cup Range(b) : Occurrences(a, x) = Occurrences(b, x)

\* C34: the pool of a discovery function never holds an identifier twice,
\* whatever the provider calls return, and the list returned is a
\* permutation of the pool.
C34_PoolWithoutRepeats ==
    /\ NoRepeat(discovery.allContent)
    /\ discovery.pc = "returned" =>
          /\ IsPermutation(discovery.result, discovery.allContent)
          /\ NoRepeat(discovery.result)

\* Twelve titles returned in another order than they were found in, from
\* four or more pages: a page added nothing or part of itself only.
C34_Witness ==
    /\ discovery.pc = "returned"
    /\ Len(discovery.result) = 12
    /\ discovery.result # discovery.allContent
    /\ discovery.queried["Netflix"] + discovery.queried["Hulu"] >= 4


(***************************************************************************)
(* Properties of the session state (Spec) and of the rating-enforced       *)
(* pass.                                                                   *)
(***************************************************************************)
\* C35: in every reachable state, whatever the order of spin clicks, spin
\* successes, spin failures and session resets, spinsRemaining is at least
\* 0 and at most 3.
C35_BudgetInRange == spinsRemaining \in 0..InitialSpins

\* The step of chooseContent that recycles the served set.
RecycleStep ==
    /\ spin.pc = "choose"
    /\ ~spin.hasResetUsedContent
    /\ spin'.pc = "choose"
    /\ spin'.hasResetUsedContent

\* C36 as stated: the recycle reset inside a spin changes the served set
\* only, the usage counters and spinsRemaining are as they were.
C36_RecycleChangesServedSetOnly ==
    [][RecycleStep =>
          /\ providerUsageCount' = providerUsageCount
          /\ spinsRemaining' = spinsRemaining]_vars

\* C36, amended: the recycle reset inside a spin empties the served set
\* and sets every usage counter back to 0 (resetUsedContent clears both);
\* spinsRemaining is as it was.
C36_RecycleClearsServedAndUsage ==
    [][RecycleStep =>
          /\ usedContentIds' = {}
          /\ providerUsageCount' = EmptyUsage
          /\ spinsRemaining' = spinsRemaining]_vars

\* chooseContent has just recycled in a spin that started with a served
\* title and a counted service: both are cleared.
C36_Witness ==
    /\ spin.pc = "choose"
    /\ spin.hasResetUsedContent
    /\ hist.run.didReset
    /\ spin.used0 # {}
    /\ spin.usage0 # EmptyUsage
    /\ usedContentIds = {}
    /\ providerUsageCount = EmptyUsage
    /\ spinsRemaining = spin.rem0 - 1

EnforcedPassSucceeds ==
    /\ spin.pc = "format"
    /\ spin.enforceRating
    /\ spin'.pc = "selected"

\* C38: when a rating filter is active and the rating-enforced pass
\* succeeds, the title returned has a rating, and that rating is one of
\* the selected ratings.
C38_EnforcedResultHasSelectedRating ==
    [][EnforcedPassSucceeds =>
          /\ spin'.formattedContent.rating \notin {"null", "undefined"}
          /\ spin'.formattedContent.rating \in selectedRatings]_vars

\* The enforced pass returned a title of the raw pool whose rating was
\* fetched by formatContentItem.
C38_Witness ==
    /\ spin.pc = "selected"
    /\ spin.pass = 1
    /\ spin.path = "fallback"
    /\ selectedRatings # {}
    /\ spin.formattedContent.rating \in selectedRatings


WorkersOfCall == Cardinality(DOMAIN handlers) + waking + finished

\* C40: runWithConcurrency runs min(limit, items.length) workers and calls
\* the handler once for every index, in the order of the indices and
\* without leaving one out; it has not returned while a handler is in
\* flight, and when no handler is in flight and no worker is about to run
\* on every index has been handled.
C40_EveryIndexHandledOnce ==
    filterPc \in {"running", "returned"} =>
       /\ DOMAIN invoked = 1..currentIndex
       /\ currentIndex <= Len(itemsOfFilter)
       /\ \A index \in DOMAIN invoked : invoked[index] = 1
       /\ WorkersOfCall = Min(PROVIDER_CONCURRENCY, Len(itemsOfFilter))
       /\ (DOMAIN handlers = {} /\ waking = 0) =>
             currentIndex = Len(itemsOfFilter)
       /\ filterPc = "returned" =>
             /\ DOMAIN invoked = 1..Len(itemsOfFilter)
             /\ DOMAIN handlers = {}
             /\ finished = Min(PROVIDER_CONCURRENCY, Len(itemsOfFilter))

\* The call returned after its four workers handled the 24 inspected
\* titles of a longer pool.
C40_Witness ==
    /\ filterPc = "returned"
    /\ Len(spin.allContent) > MAX_PROVIDER_LOOKUPS
    /\ DOMAIN invoked = 1..MAX_PROVIDER_LOOKUPS
    /\ finished = PROVIDER_CONCURRENCY
====
